---- MODULE Spec2Model ----
(***************************************************************************)
(* A model of the chat client's conversation orchestration:                *)
(*   - the provider registry       (lib/ai/models.ts)                      *)
(*   - streamReply and generateImageFromPrompt (lib/ai/clients.ts)         *)
(*   - the chat screen's send handler (app/chat/[id].tsx and its two       *)
(*     sibling versions)                                                   *)
(*   - the conversation store      (lib/db/chat.ts, lib/db/index.ts)       *)
(*   - deriveChatTitleFromMessage and parseSearchDirectives                *)
(*   - the chat screen's load, delete request and model picker             *)
(*   - getMMKV (lib/storage/mmkv.ts) and the image cache directory         *)
(* The specifications share the pure operators:                            *)
(*   SpecStream  one invocation of streamReply                             *)
(*   SpecSend    one turn of a chat screen                                 *)
(*   SpecOverlap two invocations of send on one screen                     *)
(*   SpecScreen  a turn on a screen still loading, and a delete request    *)
(*   SpecDir     calls of saveImageToCache after a start of the app        *)
(*   SpecKv      callers of getMMKV after a start of the app               *)
(*   SpecPick    picks in the chat screen's model picker, around a turn    *)
(*   SpecSettings a turn while the settings screen saves keys              *)
(*   SpecRename  turns that rename the chat, beside the model picker       *)
(*   SpecReg     the registry refresh                                      *)
(*   SpecStore   calls on the conversation store, overlapping              *)
(*   SpecTitle   deriveChatTitleFromMessage on one text, send's rename     *)
(*   SpecParse   parseSearchDirectives on one text                         *)
(* A handler reads the state of the render that created it: the view*      *)
(* variables hold that render's values, and Render refreshes them.         *)
(* A text is a sequence of characters where its characters matter.         *)
(* A null / undefined value is modelled by the empty sequence <<>>, an     *)
(* optional value by a sequence of length 0 or 1.                          *)
(***************************************************************************)
EXTENDS Integers, Sequences, FiniteSets, TLC

(* ------------------------------ bounds --------------------------------- *)

\* chunks one provider stream yields in SpecStream
MaxChunks == 3
\* chunks one provider stream yields inside a turn of SpecSend
MaxTurnChunks == 2
\* picks made in the model picker in SpecPick
MaxPicks == 2
\* how many values the settings screen writes while a turn runs
MaxSettings == 2
\* invocations of send that may overlap in SpecOverlap
MaxOverlap == 2
\* components calling loadAvailableProviders in SpecReg
MaxCallers == 3
\* changes of the on-device model's availability in SpecReg
MaxFlips == 1
\* store calls made in one run, calls in flight at once, and the last clock value
MaxStoreOps == 2
MaxSlots == 2
MaxClock == 2
\* the longest run of letters in a text given to deriveChatTitleFromMessage
MaxLine == 60
\* the pieces a text given to parseSearchDirectives is made of
MaxPieces == 4

\* InputBar never hands more than this many attachments to onSend
MAX_REFERENCE_IMAGES == 3
MAX_LENGTH == 48

\* the text fragments a provider stream may yield ("" is the empty chunk)
Tokens == {"", "Hel", "lo", " world"}
\* the fragments used inside a turn
TurnTokens == {"", "a", "b"}

(* ------------------------------- state --------------------------------- *)

\* one invocation of streamReply
VARIABLES
  srChunks,     \* input: the chunks result.textStream yields, in order
  srBreaks,     \* input: the stream throws after its last chunk
  srText,       \* input: what `await result.text` gives; <<>> when it rejects
  srOnToken,    \* input: an onToken handler was passed
  srOpens,      \* input: getModel / streamText succeed
  srPc,         \* "call" | "streaming" | "text" | "fallback" | "returned" | "threw"
  srPos,        \* chunks received so far
  srAcc,        \* streamReply's acc
  srResult,     \* the returned text
  srPayloads,   \* the onToken arguments so far, in call order
  srHandlerAcc, \* the caller's acc (send's closure variable)
  srContents,   \* the contents the handler has written to the transcript
  srTextReads   \* how often result.text was awaited

streamVars == << srChunks, srBreaks, srText, srOnToken, srOpens, srPc, srPos,
                 srAcc, srResult, srPayloads, srHandlerAcc, srContents,
                 srTextReads >>

\* the registry refresh
VARIABLES
  cachedProviders, \* the module-level cache; <<>> is null
  appleOn,         \* what apple.isAvailable() answers now
  flips,           \* how often the availability has changed
  probes,          \* how often isAppleAvailable has run
  ldPc,            \* per component: "unmounted" | "rendered" | "probing" | "returning" | "done"
  ldMounted,       \* per component: the `mounted` flag of its effect
  ldList,          \* per component: the list its pending promise resolves to
  ldResult,        \* per component: the list loadAvailableProviders returned
  hookProviders    \* per component: the `providers` state of useAvailableProviders

regVars == << cachedProviders, appleOn, flips, probes, ldPc, ldMounted, ldList, ldResult,
              hookProviders >>

\* the chat screen
VARIABLES
  screen,           \* which version of ChatScreen is mounted
  chat,             \* the chat state: provider, model, title
  providers,        \* the screen's snapshot of the registry (useAvailableProviders)
  storedKey,        \* per provider, what getApiKey(provider) resolves to ("" when unset)
  customSearchKey,  \* what getCustomSearchKey() resolves to ("" when unset)
  customSearchCx,   \* what getCustomSearchCx() resolves to ("" when unset)
  settingsLeft,     \* writes of the settings still to be made
  store,            \* the messages table, in insertion order
  messages,         \* the in-memory transcript
  isSending,        \* the isSending state as last set
  viewIsSending,    \* the isSending the rendered send closure and InputBar see
  viewMessages,     \* the messages the rendered send closure sees
  viewChat,         \* the chat the rendered closures see
  nextId,           \* stands for randomUUID(): the next fresh id
  text,             \* InputBar's text, with what parseSearchDirectives makes of it
  attachments,      \* InputBar's attachments: the base64 payloads picked
  turn              \* per invocation of send: its position and locals

sendVars == << screen, chat, providers, storedKey, customSearchKey, customSearchCx,
               settingsLeft, store, messages, isSending, viewIsSending, viewMessages,
               viewChat, nextId, text, attachments, turn >>

\* the conversation store (src/lib/db): the two tables and the calls in flight
VARIABLES
  foreignKeys,  \* whether this build of SQLite enforces foreign keys
  clock,        \* what Date.now() answers now
  dbChats,      \* table chats: id -> << row >>, <<>> when there is no such row
  dbMessages,   \* table messages: the set of its rows
  usedIds,      \* the chat ids createChat has returned
  creating,     \* per chat id: << now >> of a createChat whose INSERT has yet to run
  inserted,     \* how many INSERTs into messages have run
  ops,          \* the calls in flight, one per slot
  opsLeft       \* calls still to be made

storeVars == << foreignKeys, clock, dbChats, dbMessages, usedIds, creating, inserted, ops,
               opsLeft >>

\* the text functions, applied to one message text (a sequence of characters)
VARIABLES
  txInput,      \* input: the text
  txChatTitle,  \* input: chat.title of the render the message is sent from
  txScreenTitle, \* chat.title of the screen's state, as last set
  txStoredTitle, \* the title of the chat's row in the store
  txPc,         \* "ready", then "derived", "parsed", or send's position up to "sent"
  txTitle,      \* what deriveChatTitleFromMessage returned; <<>> is null
  txParsed      \* what parseSearchDirectives returned

textVars == << txInput, txChatTitle, txScreenTitle, txStoredTitle, txPc, txTitle, txParsed >>

\* the chat screen's initial load and its delete request
VARIABLES
  loadPc,       \* "listing" (chat set, SELECT pending) | "listed" | "loaded" | "failed"
  loadRows,     \* what listMessages resolved to
  delPc,        \* "idle" | "asked" | "deleting" | "deleted" | "done" | "cancelled" | "failed"
  delMsg        \* the message the delete alert was opened for; <<>> when none

viewVars == << loadPc, loadRows, delPc, delMsg >>

\* the chat screen's model picker
VARIABLES
  mcStored,            \* the chat's row in the store: provider, model, title
  selection,           \* the `selection` state: << pair >>, <<>> is null
  viewSelection,       \* the selection the rendered closures see
  isUpdatingModel,     \* the `isUpdatingModel` state
  viewIsUpdatingModel, \* the isUpdatingModel the rendered handleModelChange sees
  chatSet,             \* "set": setChat has run; "rendered": and the screen rendered; "no"
  mcCall,              \* per call of handleModelChange: its position, next, previous
  mcAlert,             \* how often 'Could not update model' was shown
  mcLeft               \* picks still to be made

pickVars == << mcStored, selection, viewSelection, isUpdatingModel, viewIsUpdatingModel,
               chatSet, mcCall, mcAlert, mcLeft >>

\* the encrypted key-value storage (lib/storage/mmkv.ts)
VARIABLES
  secureItem,   \* the SecureStore item 'mmkv.enc.v1'; 0 when there is none
  storage,      \* the module's _storage: << key it was opened with >>, <<>> is null
  generated,    \* how many encryption keys have been generated
  kvPc,         \* per caller of getMMKV: "idle" | "reading" | "storing" | "opening" | "done" | "failed"
  kvK,          \* per caller: the k of getOrCreateEncKey
  kvGot         \* per caller: the key of the instance getMMKV returned; 0 when none

kvVars == << secureItem, storage, generated, kvPc, kvK, kvGot >>

\* the image cache directory (lib/ai/clients.ts)
VARIABLES
  baseDir,                \* environment: Paths.document or Paths.cache resolves
  createThrows,           \* environment: directory.create throws
  dirExists,              \* the ai-images directory exists
  dirCreates,             \* how often the ai-images directory was created
  resolvedBaseDirectory,  \* the module variable is set
  resolvedImageDirectory, \* the module variable is set
  ensureDirPromise,       \* <<>> is null, else << "resolved" >> or << "rejected" >>
  dcPc,                   \* per call of saveImageToCache: "idle" | "awaiting" | "done", or how
                          \* it failed: "failed" (no directory) | "createFailed" | "writeFailed"
  dcPromise,              \* per call: how the promise it awaits settled
  dcAvailable             \* per call: a directory was available when it was made

dirVars == << baseDir, createThrows, dirExists, dirCreates, resolvedBaseDirectory,
              resolvedImageDirectory, ensureDirPromise, dcPc, dcPromise, dcAvailable >>

moreVars == << viewVars, pickVars, kvVars, dirVars >>
notView == << pickVars, kvVars, dirVars >>
notPick == << viewVars, kvVars, dirVars >>
notKv == << viewVars, pickVars, dirVars >>
notDir == << viewVars, pickVars, kvVars >>

vars == << streamVars, regVars, sendVars, storeVars, textVars, moreVars >>

(* --------------------------- sequence helpers -------------------------- *)

SetMin(S) == CHOOSE x \in S : \A y \in S : x <= y

\* Array.prototype.find: of the elements at the matching indices idx, the
\* first, as an optional
First(seq, idx) == IF idx = {} THEN <<>> ELSE << seq[SetMin(idx)] >>

RECURSIVE ConcatAll(_)
ConcatAll(seq) == IF seq = <<>> THEN "" ELSE Head(seq) \o ConcatAll(Tail(seq))

NonEmpty(seq) == SelectSeq(seq, LAMBDA c : c # "")

SeqsUpTo(S, n) == UNION {[1..k -> S] : k \in 0..n}

\* the characters `\s`, trim() and trimEnd() take for whitespace, of those
\* used here
IsSpace(c) == c \in {" ", "\t", "\n", "\r"}
ELLIPSIS == "U+2026"
SetMax(S) == CHOOSE x \in S : \A y \in S : x >= y
Inked(s) == { i \in DOMAIN s : ~IsSpace(s[i]) }

\* String.prototype.trim and trimEnd
trim(s) == IF Inked(s) = {} THEN <<>> ELSE SubSeq(s, SetMin(Inked(s)), SetMax(Inked(s)))
trimEnd(s) == IF Inked(s) = {} THEN <<>> ELSE SubSeq(s, 1, SetMax(Inked(s)))

(* ----------------------------- registry -------------------------------- *)

OPENAI_PROVIDER ==
  [id |-> "openai", requiresApiKey |-> TRUE,
   models |-> << [id |-> "gpt-5", kind |-> "text"],
                 [id |-> "gpt-5-mini", kind |-> "text"],
                 [id |-> "gpt-5-nano", kind |-> "text"] >>]

GOOGLE_PROVIDER ==
  [id |-> "google", requiresApiKey |-> TRUE,
   models |-> << [id |-> "gemini-2.5-pro", kind |-> "text"],
                 [id |-> "gemini-2.5-flash", kind |-> "text"],
                 [id |-> "gemini-2.5-flash-image-preview", kind |-> "image"] >>]

APPLE_PROVIDER ==
  [id |-> "apple", requiresApiKey |-> FALSE,
   models |-> << [id |-> "system-default", kind |-> "text"] >>]

\* The registry entry of the one pair limited to a single reference image.
\* The chat screen tests for it (app/chat/[id].tsx:67,202); the registry
\* version that lists it is not among the sources.
GPT_IMAGE_1 == [id |-> "gpt-image-1", kind |-> "image"]

CORE_PROVIDERS == << OPENAI_PROVIDER, GOOGLE_PROVIDER >>

\* detectProviders: the core providers, plus the on-device one when the probe
\* answered true
detectProviders(apple) ==
  IF apple THEN Append(CORE_PROVIDERS, APPLE_PROVIDER) ELSE CORE_PROVIDERS

\* getBaseProviders: cachedProviders ?? CORE_PROVIDERS
getBaseProviders(cached) == IF cached = <<>> THEN CORE_PROVIDERS ELSE cached

findProvider(list, providerId) ==
  First(list, {i \in DOMAIN list : list[i].id = providerId})

getModelInfo(providerId, modelId, list) ==
  LET provider == findProvider(list, providerId)
  IN  IF provider = <<>> THEN <<>>
      ELSE LET models == provider[1].models
           IN  First(models, {i \in DOMAIN models : models[i].id = modelId})

isImageModel_UnlistedIsImage(providerId, modelId, list) ==
  LET info == getModelInfo(providerId, modelId, list)
  IN  info = <<>> \/ info[1].kind = "image"
isImageModel(providerId, modelId, list) ==
  LET info == getModelInfo(providerId, modelId, list)
  IN  info # <<>> /\ info[1].kind = "image"

providerRequiresApiKey(providerId, list) ==
  LET provider == findProvider(list, providerId)
  IN  IF provider = <<>> THEN FALSE ELSE provider[1].requiresApiKey

(* ---------------------------- streamReply ------------------------------ *)

\* `if (!chunk) continue`
SkipsChunk_Never(chunk) == FALSE
SkipsChunk(chunk) == chunk = ""

\* `acc += chunk` inside streamReply
StreamAcc_Prepends(acc, chunk) == chunk \o acc
StreamAcc(acc, chunk) == acc \o chunk

\* the argument of onToken(...): the chunk just received
OnTokenPayload(acc, chunk) == chunk

\* send's handler: `acc += chunk`, then the assistant's content becomes acc
HandlerAcc(acc, payload) == acc \o payload

\* `if (acc) return acc`: the stream's text is returned when it is not empty
ReturnsAcc_Always(acc) == TRUE
ReturnsAcc(acc) == acc # ""

StreamInit ==
  /\ srChunks \in SeqsUpTo(Tokens, MaxChunks)
  /\ srBreaks \in BOOLEAN
  /\ srText \in {<<>>, <<"">>, <<"Hello world">>}
  /\ srOnToken \in BOOLEAN
  /\ srOpens \in BOOLEAN
  /\ srPc = "call"
  /\ srPos = 0
  /\ srAcc = ""
  /\ srResult = ""
  /\ srPayloads = <<>>
  /\ srHandlerAcc = ""
  /\ srContents = <<>>
  /\ srTextReads = 0

\* `await streamText({model: getModel(...), messages})`, then the branch on onToken
streamReplyOpen ==
  /\ srPc = "call"
  /\ srPc' = IF ~srOpens THEN "threw"
             ELSE IF ~srOnToken THEN "text" ELSE "streaming"
  /\ UNCHANGED << srChunks, srBreaks, srText, srOnToken, srOpens, srPos, srAcc,
                  srResult, srPayloads, srHandlerAcc, srContents, srTextReads >>
  /\ UNCHANGED << regVars, sendVars, storeVars, textVars, moreVars >>

\* `return await result.text` when no handler was passed
streamReplyText ==
  /\ srPc = "text"
  /\ srTextReads' = srTextReads + 1
  /\ IF srText = <<>>
       THEN srPc' = "threw" /\ UNCHANGED srResult
       ELSE srPc' = "returned" /\ srResult' = srText[1]
  /\ UNCHANGED << srChunks, srBreaks, srText, srOnToken, srOpens, srPos, srAcc,
                  srPayloads, srHandlerAcc, srContents >>
  /\ UNCHANGED << regVars, sendVars, storeVars, textVars, moreVars >>

\* one iteration of `for await (const chunk of result.textStream)`
streamReplyChunk ==
  /\ srPc = "streaming"
  /\ srPos < Len(srChunks)
  /\ LET chunk == srChunks[srPos + 1] IN
       /\ srPos' = srPos + 1
       /\ IF SkipsChunk(chunk)
            THEN UNCHANGED << srAcc, srPayloads, srHandlerAcc, srContents >>
            ELSE LET acc == StreamAcc(srAcc, chunk)
                     payload == OnTokenPayload(acc, chunk)
                     shown == HandlerAcc(srHandlerAcc, payload)
                 IN  /\ srAcc' = acc
                     /\ srPayloads' = Append(srPayloads, payload)
                     /\ srHandlerAcc' = shown
                     /\ srContents' = Append(srContents, shown)
  /\ UNCHANGED << srChunks, srBreaks, srText, srOnToken, srOpens, srPc,
                  srResult, srTextReads >>
  /\ UNCHANGED << regVars, sendVars, storeVars, textVars, moreVars >>

\* the stream is exhausted: it throws, or the loop ends and acc is returned
\* when it is not empty
streamReplyEnd ==
  /\ srPc = "streaming"
  /\ srPos = Len(srChunks)
  /\ IF srBreaks
       THEN srPc' = "threw" /\ UNCHANGED srResult
       ELSE IF ReturnsAcc(srAcc)
              THEN srPc' = "returned" /\ srResult' = srAcc
              ELSE srPc' = "fallback" /\ UNCHANGED srResult
  /\ UNCHANGED << srChunks, srBreaks, srText, srOnToken, srOpens, srPos, srAcc,
                  srPayloads, srHandlerAcc, srContents, srTextReads >>
  /\ UNCHANGED << regVars, sendVars, storeVars, textVars, moreVars >>

\* `try { return await result.text } catch { return acc }`
streamReplyFallback ==
  /\ srPc = "fallback"
  /\ srTextReads' = srTextReads + 1
  /\ srPc' = "returned"
  /\ srResult' = IF srText = <<>> THEN srAcc ELSE srText[1]
  /\ UNCHANGED << srChunks, srBreaks, srText, srOnToken, srOpens, srPos, srAcc,
                  srPayloads, srHandlerAcc, srContents >>
  /\ UNCHANGED << regVars, sendVars, storeVars, textVars, moreVars >>

StreamNext ==
  \/ streamReplyOpen
  \/ streamReplyText
  \/ streamReplyChunk
  \/ streamReplyEnd
  \/ streamReplyFallback

(* ------------------------- the registry refresh ------------------------ *)

Callers == 1..MaxCallers

RegInit ==
  /\ cachedProviders = <<>>
  /\ appleOn \in BOOLEAN
  /\ flips = 0
  /\ probes = 0
  /\ ldPc = [c \in Callers |-> "unmounted"]
  /\ ldMounted = [c \in Callers |-> FALSE]
  /\ ldList = [c \in Callers |-> <<>>]
  /\ ldResult = [c \in Callers |-> <<>>]
  /\ hookProviders = [c \in Callers |-> <<>>]

\* line 88: a component renders for the first time, useState(getBaseProviders())
useAvailableProviders(c) ==
  /\ ldPc[c] = "unmounted"
  /\ hookProviders' = [hookProviders EXCEPT ![c] = getBaseProviders(cachedProviders)]
  /\ ldPc' = [ldPc EXCEPT ![c] = "rendered"]
  /\ UNCHANGED << cachedProviders, appleOn, flips, probes, ldMounted, ldList, ldResult >>
  /\ UNCHANGED << streamVars, sendVars, storeVars, textVars, moreVars >>

\* lines 90-92 and 76-79: after the commit the effect sets mounted and calls
\* loadAvailableProviders(), which runs to its first await. With an empty cache
\* that is `await detectProviders()`, whose probe has already run by then.
loadAvailableProviders(c) ==
  /\ ldPc[c] = "rendered"
  /\ ldMounted' = [ldMounted EXCEPT ![c] = TRUE]
  /\ IF cachedProviders = <<>>
       THEN /\ probes' = probes + 1
            /\ ldList' = [ldList EXCEPT ![c] = detectProviders(appleOn)]
            /\ ldPc' = [ldPc EXCEPT ![c] = "probing"]
       ELSE /\ ldList' = [ldList EXCEPT ![c] = cachedProviders]
            /\ ldPc' = [ldPc EXCEPT ![c] = "returning"]
            /\ UNCHANGED probes
  /\ UNCHANGED << cachedProviders, appleOn, flips, ldResult, hookProviders >>
  /\ UNCHANGED << streamVars, sendVars, storeVars, textVars, moreVars >>

\* `cachedProviders = await detectProviders(); return cachedProviders`, then
\* the hook's `.then((list) => { if (mounted) setProviders(list) })`
loadAvailableProvidersResume(c) ==
  /\ ldPc[c] = "probing"
  /\ cachedProviders' = ldList[c]
  /\ ldResult' = [ldResult EXCEPT ![c] = ldList[c]]
  /\ hookProviders' = IF ldMounted[c] THEN [hookProviders EXCEPT ![c] = ldList[c]]
                      ELSE hookProviders
  /\ ldPc' = [ldPc EXCEPT ![c] = "done"]
  /\ UNCHANGED << appleOn, flips, probes, ldMounted, ldList >>
  /\ UNCHANGED << streamVars, sendVars, storeVars, textVars, moreVars >>

\* the cache was filled at call time: the promise resolves to what it held;
\* lines 93-94
loadAvailableProvidersReturn(c) ==
  /\ ldPc[c] = "returning"
  /\ ldResult' = [ldResult EXCEPT ![c] = ldList[c]]
  /\ hookProviders' = IF ldMounted[c] THEN [hookProviders EXCEPT ![c] = ldList[c]]
                      ELSE hookProviders
  /\ ldPc' = [ldPc EXCEPT ![c] = "done"]
  /\ UNCHANGED << cachedProviders, appleOn, flips, probes, ldMounted, ldList >>
  /\ UNCHANGED << streamVars, sendVars, storeVars, textVars, moreVars >>

\* lines 99-101: the component unmounts while its call is pending; the
\* cleanup clears mounted
unmountComponent(c) ==
  /\ ldPc[c] \in {"probing", "returning"}
  /\ ldMounted[c]
  /\ ldMounted' = [ldMounted EXCEPT ![c] = FALSE]
  /\ UNCHANGED << cachedProviders, appleOn, flips, probes, ldPc, ldList, ldResult,
                  hookProviders >>
  /\ UNCHANGED << streamVars, sendVars, storeVars, textVars, moreVars >>

\* the on-device model becomes available or unavailable
appleAvailabilityChanges ==
  /\ flips < MaxFlips
  /\ appleOn' = ~appleOn
  /\ flips' = flips + 1
  /\ UNCHANGED << cachedProviders, probes, ldPc, ldMounted, ldList, ldResult, hookProviders >>
  /\ UNCHANGED << streamVars, sendVars, storeVars, textVars, moreVars >>

RegNext ==
  \/ \E c \in Callers : useAvailableProviders(c)
  \/ \E c \in Callers : loadAvailableProviders(c)
  \/ \E c \in Callers : unmountComponent(c)
  \/ \E c \in Callers : loadAvailableProvidersResume(c)
  \/ \E c \in Callers : loadAvailableProvidersReturn(c)
  \/ appleAvailabilityChanges

(* -------------------------- the chat screen ---------------------------- *)

\* app/chat/[id].tsx, unnamed/part_000, app/(tabs)/chat/[id].tsx
Screens == {"attachments", "search", "basic"}

\* the registry the attachments screen is written against: the sources'
\* providers with the image-edit model listed under openai
RegistryWithImageEdit(apple) ==
  LET openai == [OPENAI_PROVIDER EXCEPT !.models = Append(@, GPT_IMAGE_1)]
  IN  IF apple THEN << openai, GOOGLE_PROVIDER, APPLE_PROVIDER >>
      ELSE << openai, GOOGLE_PROVIDER >>

\* the (provider, model) pairs a stored chat may hold; the last is a model
\* the registry no longer lists
ChatPairs ==
  { << "openai", "gpt-5" >>, << "openai", "gpt-image-1" >>,
    << "google", "gemini-2.5-flash-image-preview" >>,
    << "apple", "system-default" >>, << "openai", "gpt-4o" >> }

\* what the user may have typed: the text InputBar hands to send, its trim(),
\* and what parseSearchDirectives makes of that
TextInputs ==
  { [text |-> "", trimmed |-> "", sanitized |-> "", queries |-> <<>>],
    [text |-> "hi", trimmed |-> "hi", sanitized |-> "hi", queries |-> <<>>],
    [text |-> " hi ", trimmed |-> "hi", sanitized |-> "hi", queries |-> <<>>],
    [text |-> "hi [[search:q]]", trimmed |-> "hi [[search:q]]", sanitized |-> "hi",
     queries |-> << "q" >>],
    [text |-> "[[search:q]] [[search:r]]", trimmed |-> "[[search:q]] [[search:r]]",
     sanitized |-> "", queries |-> << "q", "r" >>] }

\* what the user may have picked: at most MAX_REFERENCE_IMAGES payloads; the
\* picker reports heic1 as image/heic, the others as image/png
AttachmentInputs ==
  { SubSeq(<< "img1", "img2", "img3" >>, 1, n) : n \in 0..MAX_REFERENCE_IMAGES }
    \cup { << "heic1" >> }
mimeType(attachment) == IF attachment = "heic1" THEN "image/heic" ELSE "image/png"

\* the providers a key may be stored for, and the same key stored for each
KeyProviders == {"openai", "google", "apple"}
KeysAll(k) == [p \in KeyProviders |-> k]

IdleTurn ==
  [pc |-> "idle", content |-> "", queries |-> <<>>, given |-> <<>>,
   limited |-> <<>>, idx |-> 0, created |-> <<>>, uploads |-> <<>>,
   image |-> FALSE, key |-> "", user |-> 0, assistant |-> 0,
   acc |-> "", srAcc |-> "", chunks |-> <<>>, final |-> "", fallback |-> FALSE,
   log |-> <<>>, net |-> 0, calls |-> <<>>, sent |-> <<>>, alert |-> <<>>,
   error |-> <<>>, base |-> <<>>, blocks |-> <<>>, history |-> <<>>, imageText |-> <<>>,
   provider |-> "", model |-> "", title |-> "", searchKey |-> "", pending |-> 0]

\* the invocations of send, and where invocation t stands
Turns == 1..MaxOverlap
At(t, pc) == t \in DOMAIN turn /\ turn[t].pc = pc

SendInit ==
  /\ screen \in Screens
  /\ chat \in { [provider |-> p[1], model |-> p[2], title |-> ti] :
                  p \in ChatPairs, ti \in {"New Chat", "Plans"} }
  /\ providers \in { RegistryWithImageEdit(FALSE), RegistryWithImageEdit(TRUE) }
  /\ storedKey \in { KeysAll(""), KeysAll("sk-1") }
  /\ customSearchKey \in (IF screen = "search" THEN { <<>>, << "ck" >> } ELSE { <<>> })
  /\ customSearchCx = (IF customSearchKey = <<>> THEN <<>> ELSE << "cx" >>)
  /\ settingsLeft = 0
  /\ store = <<>>
  /\ messages = <<>>
  /\ isSending = FALSE
  /\ viewIsSending = FALSE
  /\ viewMessages = <<>>
  /\ viewChat = chat
  /\ nextId = 1
  /\ text \in { i \in TextInputs : /\ screen # "search" => i.queries = <<>>
                                   /\ screen = "basic" => i.trimmed # ""
                                   /\ screen # "basic" => i.text = i.trimmed }
  /\ attachments \in { a \in AttachmentInputs : screen # "attachments" => a = <<>> }
  /\ turn = << IdleTurn >>

\* a text chat that has its title and its key, and a message typed
OverlapInit ==
  /\ screen \in Screens
  /\ chat = [provider |-> "openai", model |-> "gpt-5", title |-> "Plans"]
  /\ providers = RegistryWithImageEdit(FALSE)
  /\ storedKey = KeysAll("sk-1")
  /\ customSearchKey = <<>>
  /\ customSearchCx = <<>>
  /\ settingsLeft = 0
  /\ store = <<>>
  /\ messages = <<>>
  /\ isSending = FALSE
  /\ viewIsSending = FALSE
  /\ viewMessages = <<>>
  /\ viewChat = chat
  /\ nextId = 1
  /\ text = [text |-> "hi", trimmed |-> "hi", sanitized |-> "hi", queries |-> <<>>]
  /\ attachments = <<>>
  /\ turn = [t \in Turns |-> IdleTurn]

(* the pieces of send *)

\* lines 36-39: the selection the effect makes of the chat; the first version
\* of the screen has no selection
Pair(c) == [provider |-> c.provider, model |-> c.model]
selectionOf(c) == IF screen = "basic" THEN <<>> ELSE << Pair(c) >>

\* lines 62-63: `selection?.provider ?? chat.provider`, selection and chat
\* being those of the render that made send's closure
Provider == IF viewSelection # <<>> THEN viewSelection[1].provider ELSE viewChat.provider
Model == IF viewSelection # <<>> THEN viewSelection[1].model ELSE viewChat.model

\* line 64; the first version of the screen knows no image models
imageModelSelected ==
  screen # "basic" /\ isImageModel(Provider, Model, providers)

\* lines 65-67: attachments with data, cut to one for openai / gpt-image-1
limitedReferenceImages(provider, model, given) ==
  LET referenceImages == SelectSeq(given, LAMBDA a : a # "")
  IN  IF provider = "openai" /\ model = "gpt-image-1"
        THEN SubSeq(referenceImages, 1, IF Len(referenceImages) < 1 THEN Len(referenceImages) ELSE 1)
        ELSE referenceImages

\* part_000 lines 66-70: the content stored for the user message
\* (lines 67-69: one line per query); the attachments screen stores the
\* trimmed text (line 71), the first version what InputBar handed over
\* (src/app/(tabs)/chat/[id].tsx line 28)
requestLines(queries) ==
  [i \in DOMAIN queries |-> "Web search requested for: " \o queries[i]]
fallbackContent(input) ==
  LET RECURSIVE join(_)
      join(lines) ==
        IF Len(lines) = 1 THEN lines[1] ELSE lines[1] \o "\n" \o join(Tail(lines))
  IN  IF Len(input.queries) > 0 THEN join(requestLines(input.queries))
      ELSE input.trimmed
userContent(input) ==
  IF screen = "basic" THEN input.text
  ELSE IF screen # "search" THEN input.trimmed
  ELSE IF Len(input.sanitized) > 0 THEN input.sanitized
  ELSE fallbackContent(input)

\* deriveChatTitleFromMessage on the contents used here: the first line of
\* the content, the lines being normalized and of at most 48 characters
derivedTitle(input) ==
  LET first == IF screen # "search" THEN input.trimmed
               ELSE IF Len(input.sanitized) > 0 THEN input.sanitized
               ELSE IF Len(input.queries) > 0 THEN requestLines(input.queries)[1]
               ELSE input.trimmed
  IN  IF first = "" THEN <<>> ELSE << first >>

\* `!chat.title?.trim() || chat.title === 'New Chat'`, and a title to set; the
\* chat is the one of the render send was called from
Renames(r) ==
  /\ screen # "basic"
  /\ r.title = "" \/ r.title = "New Chat"
  /\ derivedTitle(text) # <<>>

\* line 104, on the provider send took when it was called; the first version
\* reads the key of every provider
requiresKey(provider) ==
  IF screen = "basic" THEN TRUE ELSE providerRequiresApiKey(provider, providers)

\* keys.ts 13-16 and 27-30, 41-44: `mm.getString(...) ?? ''`
getApiKey(provider) == storedKey[provider]
getCustomSearchKey == IF customSearchKey = <<>> THEN "" ELSE customSearchKey[1]
getCustomSearchCx == IF customSearchCx = <<>> THEN "" ELSE customSearchCx[1]

\* keys.ts 18-25, 32-39: an empty value deletes the entry, another is set
customSearchEntry(value) == IF value = "" THEN <<>> ELSE << value >>

\* generateImageFromPrompt (part_011): the reference images that go out with
\* the request
TransmittedImages(provider, images) ==
  IF provider = "openai"
    THEN (IF Len(images) > 0 THEN << images[1] >> ELSE <<>>)
  ELSE IF provider = "google"
    THEN SelectSeq(images, LAMBDA b : b # "")
  ELSE <<>>

\* setMessages(prev => prev.map(m => m.id === id ? {...m, content} : m)) and
\* UPDATE messages SET content=? WHERE id=?
SetContent_Filters(rows, id, content) ==
  SelectSeq(rows, LAMBDA m : m.id # id)
SetContent_Upserts(rows, id, content) ==
  IF \E i \in DOMAIN rows : rows[i].id = id
    THEN [i \in DOMAIN rows |->
            IF rows[i].id = id THEN [rows[i] EXCEPT !.content = content] ELSE rows[i]]
    ELSE Append(rows, [id |-> id, role |-> "assistant", content |-> content])
SetContent(rows, id, content) ==
  [i \in DOMAIN rows |->
     IF rows[i].id = id THEN [rows[i] EXCEPT !.content = content] ELSE rows[i]]

Row(id, role, content) == [id |-> id, role |-> role, content |-> content]

\* the message list handed to streamReply, `.map(({ role, content }) => ...)`:
\* the transcript of the render send was called from (line 61), then this
\* turn's search blocks (part_000 line 142), the user message, the stored
\* attachments (line 89)
Pairs(rows) == [i \in DOMAIN rows |-> [role |-> rows[i].role, content |-> rows[i].content]]
historyForModel_WithoutSearch(r) ==
  Pairs(r.base \o << Row(r.user, "user", r.content) >>
          \o (IF screen = "attachments" THEN r.created ELSE <<>>))
historyForModel(r) ==
  Pairs(r.base \o (IF screen = "search" THEN r.blocks ELSE <<>>)
          \o << Row(r.user, "user", r.content) >>
          \o (IF screen = "attachments" THEN r.created ELSE <<>>))

\* the await that follows: the rename is awaited only when there is one to do,
\* the key only when the provider requires one
AfterSearch(r) ==
  IF requiresKey(r.provider) THEN "key" ELSE "addAssistant"
AfterRename(r) ==
  IF screen = "search" /\ Len(r.queries) > 0 THEN "searchCreds" ELSE AfterSearch(r)
AfterMessages(r) ==
  IF screen = "basic" THEN "key"
  ELSE IF Renames(r) THEN "rename" ELSE AfterRename(r)

\* line 107: the alert for a missing key names the provider
MissingKeyAlert(provider) ==
  << "Missing API key", "Add your " \o provider \o " key in Settings" >>

\* the first await of send: addMessage for the user message
FirstAwait_Unsaved == "key"
FirstAwait == "addUser"

\* `finally { setIsSending(false) }`, reached by a return inside the try
IsSendingAfterReturn == FALSE
\* the same, reached through the catch
IsSendingAfterError_Stuck == TRUE
IsSendingAfterError == FALSE

Returns(t, r, alert) ==
  /\ turn' = [turn EXCEPT ![t] = [r EXCEPT !.pc = "done", !.alert = alert]]
  /\ isSending' = IsSendingAfterReturn

\* what the catch may be handed: an Error, an API error carrying the
\* provider's structured message in data.error.message (or an empty one), a
\* thrown value that is no Error (message <<>>: String(e) is shown)
Thrown(message, data, string) == [message |-> message, data |-> data, string |-> string]
StoreError == Thrown(<< "database is locked" >>, <<>>, "Error: database is locked")
AppleImageError ==
  Thrown(<< "Image generation is not supported by Apple Intelligence." >>, <<>>,
         "Error: Image generation is not supported by Apple Intelligence.")
ProviderErrors ==
  { Thrown(<< "Network request failed" >>, <<>>, "TypeError: Network request failed"),
    Thrown(<< "Bad Request" >>, << "Quota exceeded" >>, "AI_APICallError: Bad Request"),
    Thrown(<< "Bad Request" >>, << "" >>, "AI_APICallError: Bad Request"),
    Thrown(<<>>, <<>>, "aborted") }

\* lines 150-157: the structured message when it is there and not empty, else
\* `e?.message ?? String(e)`; the first version of the screen (line 51) shows
\* the latter always
ErrorAlertText_Generic(e) == IF e.message # <<>> THEN e.message[1] ELSE e.string
ErrorAlertText(e) ==
  IF screen # "basic" /\ e.data # <<>> /\ e.data[1] # "" THEN e.data[1]
  ELSE IF e.message # <<>> THEN e.message[1] ELSE e.string

Throws(t, r, e) ==
  /\ turn' = [turn EXCEPT ![t] = [r EXCEPT !.pc = "done", !.error = << e >>,
                                          !.alert = << "Error", ErrorAlertText(e) >>]]
  /\ isSending' = IsSendingAfterError

Goes(t, r, pc) ==
  /\ turn' = [turn EXCEPT ![t] = [r EXCEPT !.pc = pc]]
  /\ UNCHANGED isSending

\* what no step of send changes: the screen's inputs and settings, the
\* rendered transcript, and the other components
Settings == << storedKey, customSearchKey, customSearchCx, settingsLeft >>
Inputs == << screen, providers, text, attachments >>
Elsewhere == << streamVars, regVars, storeVars, textVars >>
Picking == << selection, viewSelection, isUpdatingModel, viewIsUpdatingModel,
             mcCall, mcAlert, mcLeft >>
Picker == << mcStored, Picking >>
Fixed == << Inputs, Settings, viewMessages, viewChat, Elsewhere, moreVars >>

(* the steps of send, one per await *)

\* InputBar's handleSend hands its text and attachments to send; lines 57-69:
\* the guard on isSending, the return on an empty text, the locals (taken
\* from the render that made the closure), setIsSending(true)
sendInvoke(t) ==
  /\ At(t, "idle")
  /\ \A u \in 1..(t - 1) : ~At(u, "idle")
  /\ ~viewIsSending
  /\ IF screen # "basic" /\ text.trimmed = ""
       THEN Goes(t, turn[t], "done")
       ELSE /\ turn' = [turn EXCEPT ![t] =
                 [@ EXCEPT !.pc = FirstAwait,
                           !.content = userContent(text),
                           !.base = viewMessages,
                           !.provider = Provider,
                           !.model = Model,
                           !.title = viewChat.title,
                           !.queries = text.queries,
                           !.given = attachments,
                           !.limited = limitedReferenceImages(Provider, Model, attachments),
                           !.image = imageModelSelected]]
            /\ isSending' = TRUE
  /\ UNCHANGED << chat, store, messages, viewIsSending, nextId, Fixed >>

\* line 71, `await addMessage(chat.id, 'user', trimmed)`: its INSERT
\* (db/chat.ts 26) runs, or rejects
sendAddUser(t) ==
  /\ At(t, "addUser")
  /\ \E ok \in BOOLEAN :
       IF ok
         THEN /\ store' = Append(store, Row(nextId, "user", turn[t].content))
              /\ nextId' = nextId + 1
              /\ Goes(t, [turn[t] EXCEPT !.user = nextId], "addUserUpdate")
         ELSE Throws(t, turn[t], StoreError) /\ UNCHANGED << store, nextId >>
  /\ UNCHANGED << chat, messages, viewIsSending, Fixed >>

\* the same addMessage: its UPDATE of the chat (db/chat.ts 27) runs, or
\* rejects; then the code up to the next await
sendAddUserUpdate(t) ==
  /\ At(t, "addUserUpdate")
  /\ \E ok \in BOOLEAN :
       IF ok
         THEN LET r == [turn[t] EXCEPT !.log = Append(@, "userPersisted")]
                  user == Row(r.user, "user", r.content)
              IN  IF screen = "attachments" /\ Len(r.limited) > 0
                    THEN Goes(t, [r EXCEPT !.idx = 1], "cache") /\ UNCHANGED messages
                    ELSE /\ messages' = Append(messages, user)
                         /\ Goes(t, r, AfterMessages(r))
         ELSE Throws(t, turn[t], StoreError) /\ UNCHANGED messages
  /\ UNCHANGED << chat, store, nextId, viewIsSending, Fixed >>

\* lines 75-87: the loop goes on to the next attachment; after the last,
\* setMessages(prev => [...prev, ...createdMessages])
cacheNext(t, r) ==
  IF r.idx = Len(r.limited)
    THEN /\ messages' = messages \o << Row(r.user, "user", r.content) >> \o r.created
         /\ Goes(t, r, AfterMessages(r))
    ELSE /\ Goes(t, [r EXCEPT !.idx = @ + 1], "cache")
         /\ UNCHANGED messages

\* lines 81-83: a failure while caching or storing an attachment is logged
\* and the attachment dropped
cacheCatch(t, r) == cacheNext(t, [r EXCEPT !.log = Append(@, "cacheFailed")])

\* line 77: `await saveImageToCache(...)` settles
sendCache(t) ==
  /\ At(t, "cache")
  /\ \E ok \in BOOLEAN :
       IF ok THEN Goes(t, turn[t], "cacheInsert") /\ UNCHANGED messages
       ELSE cacheCatch(t, turn[t])
  /\ UNCHANGED << chat, store, nextId, viewIsSending, Fixed >>

\* line 78, `await addMessage(chat.id, 'user', uri)`: its INSERT runs, or
\* rejects
sendCacheInsert(t) ==
  /\ At(t, "cacheInsert")
  /\ \E ok \in BOOLEAN :
       LET r == turn[t]
           uri == "file://" \o r.limited[r.idx]
       IN  IF ok
             THEN /\ store' = Append(store, Row(nextId, "user", uri))
                  /\ nextId' = nextId + 1
                  /\ Goes(t, [r EXCEPT !.pending = nextId], "cacheUpdate")
                  /\ UNCHANGED messages
             ELSE cacheCatch(t, r) /\ UNCHANGED << store, nextId >>
  /\ UNCHANGED << chat, viewIsSending, Fixed >>

\* the same addMessage: its UPDATE of the chat runs, or rejects; lines 79-80
sendCacheUpdate(t) ==
  /\ At(t, "cacheUpdate")
  /\ \E ok \in BOOLEAN :
       LET r == turn[t]
           attachment == r.limited[r.idx]
           imageMessage == Row(r.pending, "user", "file://" \o attachment)
       IN  IF ok
             THEN cacheNext(t, [r EXCEPT !.created = Append(@, imageMessage),
                                         !.uploads = Append(@, attachment)])
             ELSE cacheCatch(t, r)
  /\ UNCHANGED << chat, store, nextId, viewIsSending, Fixed >>

\* lines 92-96, `await updateChatTitle(chat.id, derivedTitle)`: its UPDATE
\* (db/chat.ts 49) runs, or rejects; a failure is logged (lines 98-100)
sendRename(t) ==
  /\ At(t, "rename")
  /\ \E ok \in BOOLEAN :
       IF ok
         THEN /\ mcStored' = [mcStored EXCEPT !.title = derivedTitle(text)[1]]
              /\ Goes(t, turn[t], "renameSelect")
         ELSE /\ UNCHANGED mcStored
              /\ Goes(t, [turn[t] EXCEPT !.log = Append(@, "renameFailed")],
                      AfterRename(turn[t]))
  /\ UNCHANGED << chat, chatSet, store, messages, viewIsSending, nextId, Inputs, Settings,
                  viewMessages, viewChat, Elsewhere, Picking, notPick >>

\* the same updateChatTitle: its SELECT (db/chat.ts 50) runs, or rejects; line
\* 97: setChat(renamed), the chat's row as stored
sendRenameSelect(t) ==
  /\ At(t, "renameSelect")
  /\ \E ok \in BOOLEAN :
       IF ok
         THEN /\ chat' = mcStored
              /\ chatSet' = "set"
              /\ Goes(t, turn[t], AfterRename(turn[t]))
         ELSE /\ UNCHANGED << chat, chatSet >>
              /\ Goes(t, [turn[t] EXCEPT !.log = Append(@, "renameFailed")],
                      AfterRename(turn[t]))
  /\ UNCHANGED << store, messages, viewIsSending, nextId, Inputs, Settings, viewMessages,
                  viewChat, Elsewhere, Picker, notPick >>

\* part_000 lines 113-116: what a query that threw leaves in its place
searchFailureBlock_Silent(query, reason) == ""
searchFailureBlock(query, reason) ==
  "Web search for \"" \o query \o "\" failed: " \o reason

\* part_000 line 91: `await getCustomSearchKey()`
sendSearchCreds(t) ==
  /\ At(t, "searchCreds")
  /\ \E ok \in BOOLEAN :
       IF ok THEN Goes(t, [turn[t] EXCEPT !.searchKey = getCustomSearchKey], "searchCx")
       ELSE Throws(t, turn[t], StoreError)
  /\ UNCHANGED << chat, store, messages, viewIsSending, nextId, Fixed >>

\* part_000 lines 92-96: `await getCustomSearchCx()`; without the key or the
\* cx the search is skipped
sendSearchCx(t) ==
  /\ At(t, "searchCx")
  /\ \E ok \in BOOLEAN :
       IF ~ok THEN Throws(t, turn[t], StoreError)
       ELSE IF turn[t].searchKey # "" /\ getCustomSearchCx # ""
         THEN Goes(t, turn[t], "searching")
         ELSE Goes(t, [turn[t] EXCEPT !.log = Append(@, "searchSkipped")],
                   AfterSearch(turn[t]))
  /\ UNCHANGED << chat, store, messages, viewIsSending, nextId, Fixed >>

\* part_000 lines 96-132: every query is sent to the search service
\* (Promise.all); a query that answers yields its summary, one that throws a
\* block saying so; the blocks that are not empty join the transcript only
sendSearch(t) ==
  /\ At(t, "searching")
  /\ \E outcomes \in [DOMAIN turn[t].queries -> {"results", "failed"}] :
       LET r == turn[t]
           results == [i \in DOMAIN r.queries |->
                         IF outcomes[i] = "results" THEN "Results for " \o r.queries[i]
                         ELSE searchFailureBlock(r.queries[i], "timeout")]
           kept == SelectSeq(results, LAMBDA content : content # "")
           searchMessages == [i \in DOMAIN kept |-> Row(nextId + i - 1, "system", kept[i])]
       IN  /\ messages' = messages \o searchMessages
           /\ nextId' = nextId + Len(searchMessages)
           /\ Goes(t, [r EXCEPT !.net = @ + Len(r.queries), !.blocks = searchMessages,
                                !.log = IF \E i \in DOMAIN outcomes : outcomes[i] = "failed"
                                          THEN Append(@, "searchFailed")
                                          ELSE @],
                   AfterSearch(r))
  /\ UNCHANGED << chat, store, viewIsSending, Fixed >>

\* lines 105-109: `await getApiKey(provider)`; an empty key ends the turn
sendKey(t) ==
  /\ At(t, "key")
  /\ \E ok \in BOOLEAN :
       LET key == getApiKey(turn[t].provider) IN
       IF ~ok THEN Throws(t, turn[t], StoreError)
       ELSE IF key = ""
         THEN Returns(t, turn[t], MissingKeyAlert(turn[t].provider))
         ELSE Goes(t, [turn[t] EXCEPT !.key = key], "addAssistant")
  /\ UNCHANGED << chat, store, messages, viewIsSending, nextId, Fixed >>

\* line 111, `await addMessage(chat.id, 'assistant', '')`: its INSERT runs,
\* or rejects
sendAddAssistant(t) ==
  /\ At(t, "addAssistant")
  /\ \E ok \in BOOLEAN :
       IF ok
         THEN /\ store' = Append(store, Row(nextId, "assistant", ""))
              /\ nextId' = nextId + 1
              /\ Goes(t, [turn[t] EXCEPT !.assistant = nextId], "addAssistantUpdate")
         ELSE Throws(t, turn[t], StoreError) /\ UNCHANGED << store, nextId >>
  /\ UNCHANGED << chat, messages, viewIsSending, Fixed >>

\* the same addMessage: its UPDATE of the chat runs, or rejects; lines
\* 112-138: the message joins the transcript, and the provider call is made
sendAddAssistantUpdate(t) ==
  /\ At(t, "addAssistantUpdate")
  /\ \E ok \in BOOLEAN :
       IF ok
         THEN LET call == IF turn[t].image THEN "generateImageFromPrompt" ELSE "streamReply"
                  r == [turn[t] EXCEPT !.calls = Append(@, call),
                                       !.log = Append(@, "providerCall")]
              IN  /\ messages' = Append(messages, Row(r.assistant, "assistant", ""))
                  /\ Goes(t, r, IF r.image THEN "image" ELSE "stream")
         ELSE Throws(t, turn[t], StoreError) /\ UNCHANGED messages
  /\ UNCHANGED << chat, store, nextId, viewIsSending, Fixed >>

\* what a provider may send along when it returns no image: `result.text ?? ''`,
\* as characters
ImageTexts ==
  { <<>>, << " ", "\n" >>, << "O", "k" >>, << " ", "O", "k", ".", "\n" >> }

\* line 129: `image.text?.trim() || 'No image was generated.'`
imageFallback(imageText) ==
  LET trimmed == trim(imageText)
  IN  IF trimmed = <<>> THEN "No image was generated." ELSE ConcatAll(trimmed)

\* lines 115-131: generateImageFromPrompt settles: the conversion fails
\* before any request (part_011 243-252: editOpenAIImage converts an image
\* that is not png, jpeg or webp before it uploads it), or the request is made
\* and gives an image, no image (with or without text), or an error (the
\* provider's, or decoding / saving the image)
sendImage(t) ==
  /\ At(t, "image")
  /\ LET r0 == turn[t]
         images == IF screen = "attachments" THEN r0.uploads ELSE <<>>
         allowedMediaTypes == {"image/png", "image/jpeg", "image/webp"}
         converts == /\ r0.provider = "openai" /\ Len(images) > 0
                     /\ mimeType(images[1]) \notin allowedMediaTypes
     IN  IF r0.provider = "apple"
           THEN /\ Throws(t, [r0 EXCEPT !.log = Append(@, "providerThrow")], AppleImageError)
                /\ UNCHANGED messages
           ELSE \E outcome \in {"convert", "uri", "text", "none", "throw"},
                   imageText \in ImageTexts :
                  LET r == [r0 EXCEPT !.net = @ + 1,
                                      !.sent = TransmittedImages(r0.provider, images),
                                      !.imageText = imageText]
                      content == IF outcome = "uri" THEN "file://generated"
                                 ELSE imageFallback(imageText)
                  IN  /\ outcome = "convert" => converts
                      /\ outcome = "text" => ~(screen = "attachments" /\ r0.provider = "openai")
                      /\ outcome # "text" => imageText = <<>>
                      /\ IF outcome = "convert"
                           THEN /\ \E e \in { x \in ProviderErrors : x.data = <<>> } :
                                     Throws(t, [r0 EXCEPT !.log = Append(@, "providerThrow")], e)
                                /\ UNCHANGED messages
                         ELSE IF outcome = "throw"
                           THEN /\ \E e \in ProviderErrors :
                                     Throws(t, [r EXCEPT !.log = Append(@, "providerThrow")], e)
                                /\ UNCHANGED messages
                           ELSE /\ messages' = SetContent(messages, r.assistant, content)
                                /\ Goes(t, [r EXCEPT !.final = content,
                                                     !.fallback = (outcome # "uri"),
                                                     !.log = Append(@, "providerReturn")],
                                        "persist")
  /\ UNCHANGED << chat, store, viewIsSending, nextId, Fixed >>

\* streamReply: `await streamText({model: getModel(...), ...})`
sendStreamOpen(t) ==
  /\ At(t, "stream")
  /\ \E opens \in BOOLEAN :
       LET r == [turn[t] EXCEPT !.history = historyForModel(turn[t])] IN
       IF opens THEN Goes(t, [r EXCEPT !.net = @ + 1], "streaming")
       ELSE \E e \in ProviderErrors :
              Throws(t, [r EXCEPT !.log = Append(@, "providerThrow")], e)
  /\ UNCHANGED << chat, store, messages, viewIsSending, nextId, Fixed >>

\* streamReply: one chunk arrives; onToken runs send's handler (lines 143-146)
sendStreamChunk(t) ==
  /\ At(t, "streaming")
  /\ Len(turn[t].chunks) < MaxTurnChunks
  /\ \E chunk \in TurnTokens :
       LET r == [turn[t] EXCEPT !.chunks = Append(@, chunk)]
       IN  IF SkipsChunk(chunk)
             THEN Goes(t, r, "streaming") /\ UNCHANGED messages
             ELSE LET acc == StreamAcc(r.srAcc, chunk)
                      shown == HandlerAcc(r.acc, OnTokenPayload(acc, chunk))
                  IN  /\ messages' = SetContent(messages, r.assistant, shown)
                      /\ Goes(t, [r EXCEPT !.srAcc = acc, !.acc = shown], "streaming")
  /\ UNCHANGED << chat, store, viewIsSending, nextId, Fixed >>

\* streamReply: the stream ends (or throws); a non-empty acc is returned
sendStreamEnd(t) ==
  /\ At(t, "streaming")
  /\ \E breaks \in BOOLEAN :
       LET r == turn[t] IN
       IF breaks THEN \E e \in ProviderErrors :
                        Throws(t, [r EXCEPT !.log = Append(@, "providerThrow")], e)
       ELSE IF ReturnsAcc(r.srAcc)
         THEN Goes(t, [r EXCEPT !.final = r.srAcc,
                                !.log = Append(@, "providerReturn")], "persist")
         ELSE Goes(t, r, "fallback")
  /\ UNCHANGED << chat, store, messages, viewIsSending, nextId, Fixed >>

\* streamReply: `try { return await result.text } catch { return acc }`
sendStreamFallback(t) ==
  /\ At(t, "fallback")
  /\ \E full \in {<<>>, << "" >>, << "full" >>} :
       Goes(t, [turn[t] EXCEPT !.final = IF full = <<>> THEN turn[t].srAcc ELSE full[1],
                               !.log = Append(@, "providerReturn")], "persist")
  /\ UNCHANGED << chat, store, messages, viewIsSending, nextId, Fixed >>

\* lines 127, 131, 149: `await updateMessageContent(assistant.id, ...)`
sendPersist(t) ==
  /\ At(t, "persist")
  /\ \E ok \in BOOLEAN :
       LET r == turn[t] IN
       IF ok
         THEN /\ store' = SetContent(store, r.assistant, r.final)
              /\ Returns(t, [r EXCEPT !.log = Append(@, "finalPersist")],
                         IF r.fallback THEN << "Image unavailable" >> ELSE <<>>)
         ELSE Throws(t, r, StoreError) /\ UNCHANGED store
  /\ UNCHANGED << chat, messages, viewIsSending, nextId, Fixed >>

\* a handler of the screen may still be called: a send, a pick of the model
\* picker, a long press on a message
handlerMayRun ==
  \/ \E t \in DOMAIN turn : At(t, "idle")
  \/ mcLeft > 0
  \/ loadPc # "idle" /\ delPc = "idle"

\* the screen renders again: the handlers called from now on see the state
\* last set. A render is followed while a handler may still be called or an
\* effect is due: after that nothing reads what it sets.
Render ==
  /\ \/ chatSet = "set"
     \/ /\ handlerMayRun
        /\ << viewIsSending, viewMessages, viewChat, viewSelection, viewIsUpdatingModel >>
             # << isSending, messages, chat, selection, isUpdatingModel >>
  /\ viewIsSending' = isSending
  /\ viewMessages' = messages
  /\ viewChat' = chat
  /\ viewSelection' = selection
  /\ viewIsUpdatingModel' = isUpdatingModel
  /\ chatSet' = IF chatSet = "set" THEN "rendered" ELSE chatSet
  /\ UNCHANGED << chat, store, messages, isSending, nextId, turn, Inputs, Settings,
                  Elsewhere, mcStored, selection, isUpdatingModel, mcCall, mcAlert,
                  mcLeft, notPick >>

\* lines 36-39: after a render that follows setChat, the effect sets the
\* selection from the chat
selectionEffect ==
  /\ chatSet = "rendered"
  /\ chatSet' = "no"
  /\ selection' = selectionOf(chat)
  /\ UNCHANGED << chat, store, messages, isSending, viewIsSending, viewMessages, viewChat,
                  nextId, turn, Inputs, Settings, Elsewhere, mcStored, viewSelection,
                  isUpdatingModel, viewIsUpdatingModel, mcCall, mcAlert, mcLeft, notPick >>

\* keys.ts 8-11: the settings screen stores a provider's key
setApiKey(provider, key) ==
  /\ settingsLeft > 0
  /\ settingsLeft' = settingsLeft - 1
  /\ storedKey' = [storedKey EXCEPT ![provider] = key]
  /\ UNCHANGED << customSearchKey, customSearchCx, chat, store, messages, isSending,
                  viewIsSending, viewMessages, viewChat, nextId, turn, Inputs, Elsewhere, moreVars >>

\* keys.ts 18-25: the settings screen stores, or clears, the search key
setCustomSearchKey(key) ==
  /\ settingsLeft > 0
  /\ settingsLeft' = settingsLeft - 1
  /\ customSearchKey' = customSearchEntry(key)
  /\ UNCHANGED << storedKey, customSearchCx, chat, store, messages, isSending,
                  viewIsSending, viewMessages, viewChat, nextId, turn, Inputs, Elsewhere, moreVars >>

\* keys.ts 32-39: the settings screen stores, or clears, the search engine id
setCustomSearchCx(cx) ==
  /\ settingsLeft > 0
  /\ settingsLeft' = settingsLeft - 1
  /\ customSearchCx' = customSearchEntry(cx)
  /\ UNCHANGED << storedKey, customSearchKey, chat, store, messages, isSending,
                  viewIsSending, viewMessages, viewChat, nextId, turn, Inputs, Elsewhere, moreVars >>

TurnStep(t) ==
  \/ sendAddUser(t)
  \/ sendAddUserUpdate(t)
  \/ sendCache(t)
  \/ sendCacheInsert(t)
  \/ sendCacheUpdate(t)
  \/ sendRename(t)
  \/ sendRenameSelect(t)
  \/ sendSearchCreds(t)
  \/ sendSearchCx(t)
  \/ sendSearch(t)
  \/ sendKey(t)
  \/ sendAddAssistant(t)
  \/ sendAddAssistantUpdate(t)
  \/ sendImage(t)
  \/ sendStreamOpen(t)
  \/ sendStreamChunk(t)
  \/ sendStreamEnd(t)
  \/ sendStreamFallback(t)
  \/ sendPersist(t)

\* the steps of a turn that sends text only and has nothing to rename
OverlapNext ==
  \/ \E t \in Turns : sendInvoke(t)
  \/ \E t \in Turns : sendAddUser(t)
  \/ \E t \in Turns : sendAddUserUpdate(t)
  \/ \E t \in Turns : sendKey(t)
  \/ \E t \in Turns : sendAddAssistant(t)
  \/ \E t \in Turns : sendAddAssistantUpdate(t)
  \/ \E t \in Turns : sendStreamOpen(t)
  \/ \E t \in Turns : sendStreamChunk(t)
  \/ \E t \in Turns : sendStreamEnd(t)
  \/ \E t \in Turns : sendStreamFallback(t)
  \/ \E t \in Turns : sendPersist(t)
  \/ Render

\* one turn alone: no handler is called after it, so no render is followed
SendNext ==
  \/ \E t \in Turns : sendInvoke(t)
  \/ \E t \in Turns : sendAddUser(t)
  \/ \E t \in Turns : sendAddUserUpdate(t)
  \/ \E t \in Turns : sendCache(t)
  \/ \E t \in Turns : sendCacheInsert(t)
  \/ \E t \in Turns : sendCacheUpdate(t)
  \/ \E t \in Turns : sendRename(t)
  \/ \E t \in Turns : sendRenameSelect(t)
  \/ \E t \in Turns : sendSearchCreds(t)
  \/ \E t \in Turns : sendSearchCx(t)
  \/ \E t \in Turns : sendSearch(t)
  \/ \E t \in Turns : sendKey(t)
  \/ \E t \in Turns : sendAddAssistant(t)
  \/ \E t \in Turns : sendAddAssistantUpdate(t)
  \/ \E t \in Turns : sendImage(t)
  \/ \E t \in Turns : sendStreamOpen(t)
  \/ \E t \in Turns : sendStreamChunk(t)
  \/ \E t \in Turns : sendStreamEnd(t)
  \/ \E t \in Turns : sendStreamFallback(t)
  \/ \E t \in Turns : sendPersist(t)

\* a turn on the search screen while the settings screen writes the keys
SettingsInit ==
  /\ screen = "search"
  /\ chat = [provider |-> "openai", model |-> "gpt-5", title |-> "Plans"]
  /\ providers = RegistryWithImageEdit(FALSE)
  /\ storedKey \in { KeysAll(""), KeysAll("sk-1") }
  /\ customSearchKey \in { <<>>, << "ck" >> }
  /\ customSearchCx \in { <<>>, << "cx" >> }
  /\ settingsLeft = MaxSettings
  /\ store = <<>>
  /\ messages = <<>>
  /\ isSending = FALSE
  /\ viewIsSending = FALSE
  /\ viewMessages = <<>>
  /\ viewChat = chat
  /\ nextId = 1
  /\ text = [text |-> "hi [[search:q]]", trimmed |-> "hi [[search:q]]", sanitized |-> "hi",
            queries |-> << "q" >>]
  /\ attachments = <<>>
  /\ turn = << IdleTurn >>

SettingsNext ==
  \/ \E t \in Turns : sendInvoke(t)
  \/ \E t \in Turns : sendAddUser(t)
  \/ \E t \in Turns : sendAddUserUpdate(t)
  \/ \E t \in Turns : sendSearchCreds(t)
  \/ \E t \in Turns : sendSearchCx(t)
  \/ \E t \in Turns : sendSearch(t)
  \/ \E t \in Turns : sendKey(t)
  \/ \E t \in Turns : sendAddAssistant(t)
  \/ \E t \in Turns : sendAddAssistantUpdate(t)
  \/ \E t \in Turns : sendStreamOpen(t)
  \/ \E t \in Turns : sendStreamChunk(t)
  \/ \E t \in Turns : sendStreamEnd(t)
  \/ \E t \in Turns : sendStreamFallback(t)
  \/ \E t \in Turns : sendPersist(t)
  \/ \E key \in {"", "sk-2"} : setApiKey("openai", key)
  \/ \E key \in {"", "ck"} : setCustomSearchKey(key)
  \/ \E cx \in {"", "cx"} : setCustomSearchCx(cx)

(* ------------------ the screen's load and delete request --------------- *)

\* a text chat that has its title, its key and one earlier message stored; the
\* screen has just set the chat (line 28) and its transcript is still the
\* initial `[]`
ScreenInit ==
  /\ screen = "attachments"
  /\ chat = [provider |-> "openai", model |-> "gpt-5", title |-> "Plans"]
  /\ providers = RegistryWithImageEdit(FALSE)
  /\ storedKey = KeysAll("sk-1")
  /\ customSearchKey = <<>>
  /\ customSearchCx = <<>>
  /\ settingsLeft = 0
  /\ store = << Row(1, "user", "earlier") >>
  /\ messages = <<>>
  /\ isSending = FALSE
  /\ viewIsSending = FALSE
  /\ viewMessages = <<>>
  /\ viewChat = chat
  /\ nextId = 2
  /\ text = [text |-> "hi", trimmed |-> "hi", sanitized |-> "hi", queries |-> <<>>]
  /\ attachments \in {<<>>, << "img1" >>}
  /\ turn = << IdleTurn >>
  /\ loadPc = "listing"
  /\ loadRows = <<>>
  /\ delPc = "idle"
  /\ delMsg = <<>>

\* prev.filter(m => m.id !== id) and DELETE FROM messages WHERE id=?
Without(rows, id) == SelectSeq(rows, LAMBDA m : m.id # id)

\* line 29: `await listMessages(id)` runs its SELECT
loadList ==
  /\ loadPc = "listing"
  /\ \E ok \in BOOLEAN :
       IF ok THEN loadPc' = "listed" /\ loadRows' = store
       ELSE loadPc' = "failed" /\ UNCHANGED loadRows
  /\ UNCHANGED << delPc, delMsg, sendVars, streamVars, regVars, storeVars, textVars, notView >>

\* line 29: setMessages(rows)
loadSet ==
  /\ loadPc = "listed"
  /\ loadPc' = "loaded"
  /\ messages' = loadRows
  /\ UNCHANGED << loadRows, delPc, delMsg, chat, store, isSending, viewIsSending,
                  nextId, turn, Inputs, Settings, viewMessages, viewChat, Elsewhere, notView >>

\* lines 163-164: a message of the transcript is long-pressed, the alert opens
handleMessageDeleteRequest ==
  /\ delPc = "idle"
  /\ \E i \in DOMAIN viewMessages : delMsg' = << viewMessages[i] >>
  /\ delPc' = "asked"
  /\ UNCHANGED << loadPc, loadRows, sendVars, streamVars, regVars, storeVars, textVars, notView >>

\* lines 165-179: Cancel, or Delete and its onPress up to the await
deleteAlertPress ==
  /\ delPc = "asked"
  /\ delPc' \in {"cancelled", "deleting"}
  /\ UNCHANGED << loadPc, loadRows, delMsg, sendVars, streamVars, regVars, storeVars, textVars, notView >>

\* line 179: `await deleteMessage(message.id)` runs its DELETE, or rejects
\* (lines 181-184)
deleteMessageRuns ==
  /\ delPc = "deleting"
  /\ \E ok \in BOOLEAN :
       IF ok THEN delPc' = "deleted" /\ store' = Without(store, delMsg[1].id)
       ELSE delPc' = "failed" /\ UNCHANGED store
  /\ UNCHANGED << loadPc, loadRows, delMsg, chat, messages, isSending, viewIsSending,
                  nextId, turn, Inputs, Settings, viewMessages, viewChat, Elsewhere, notView >>

\* line 180: setMessages(prev => prev.filter(...))
deleteApply ==
  /\ delPc = "deleted"
  /\ delPc' = "done"
  /\ messages' = Without(messages, delMsg[1].id)
  /\ UNCHANGED << loadPc, loadRows, delMsg, chat, store, isSending, viewIsSending,
                  nextId, turn, Inputs, Settings, viewMessages, viewChat, Elsewhere, notView >>

\* a turn of text on the screen, with the load and one delete request
ScreenNext ==
  \/ \E t \in Turns : sendInvoke(t)
  \/ \E t \in Turns : sendAddUser(t)
  \/ \E t \in Turns : sendAddUserUpdate(t)
  \/ \E t \in Turns : sendCache(t)
  \/ \E t \in Turns : sendCacheInsert(t)
  \/ \E t \in Turns : sendCacheUpdate(t)
  \/ \E t \in Turns : sendKey(t)
  \/ \E t \in Turns : sendAddAssistant(t)
  \/ \E t \in Turns : sendAddAssistantUpdate(t)
  \/ \E t \in Turns : sendStreamOpen(t)
  \/ \E t \in Turns : sendStreamChunk(t)
  \/ \E t \in Turns : sendStreamEnd(t)
  \/ \E t \in Turns : sendStreamFallback(t)
  \/ \E t \in Turns : sendPersist(t)
  \/ loadList
  \/ loadSet
  \/ handleMessageDeleteRequest
  \/ deleteAlertPress
  \/ deleteMessageRuns
  \/ deleteApply
  \/ Render

(* -------------------------- the model picker --------------------------- *)

\* no handleModelChange has been called
NoPick == [pc |-> "idle", next |-> <<>>, previous |-> <<>>]

\* the pairs (provider, model) the picker offers beside the chat's own
PickPairs ==
  { [provider |-> "openai", model |-> "gpt-5-mini"],
    [provider |-> "google", model |-> "gemini-2.5-flash"] }

\* the calls of handleModelChange
Picks == 1..MaxPicks

\* the chat is loaded, the effect of lines 36-39 has set the selection and the
\* screen has rendered it; `left` picks are still to be made
PickerAtRest(left) ==
  /\ mcStored = chat
  /\ selection = selectionOf(chat)
  /\ viewSelection = selection
  /\ isUpdatingModel = FALSE
  /\ viewIsUpdatingModel = FALSE
  /\ chatSet = "no"
  /\ mcCall = [c \in Picks |-> NoPick]
  /\ mcAlert = 0
  /\ mcLeft = left

\* a text chat with its title and a message typed, on a screen with a picker
PickInit ==
  /\ screen \in {"attachments", "search"}
  /\ chat = [provider |-> "openai", model |-> "gpt-5", title |-> "Plans"]
  /\ providers = RegistryWithImageEdit(FALSE)
  /\ storedKey \in { KeysAll(""), KeysAll("sk-1") }
  /\ customSearchKey = <<>>
  /\ customSearchCx = <<>>
  /\ settingsLeft = 0
  /\ store = <<>>
  /\ messages = <<>>
  /\ isSending = FALSE
  /\ viewIsSending = FALSE
  /\ viewMessages = <<>>
  /\ viewChat = chat
  /\ nextId = 1
  /\ text = [text |-> "hi", trimmed |-> "hi", sanitized |-> "hi", queries |-> <<>>]
  /\ attachments = <<>>
  /\ turn = << IdleTurn >>
  /\ PickerAtRest(MaxPicks)

\* line 42: `if (!chat || isUpdatingModel) return`, on the isUpdatingModel of
\* the render that made the callback
ModelChangeRefused(updating) == updating

\* line 51: `if (previous) setSelection(previous)`
RestoredSelection(previous, current) ==
  IF previous # <<>> THEN previous ELSE current

\* lines 49-54: the alert, the selection restored, setIsUpdatingModel(false)
ModelChangeCatch(c) ==
  /\ mcAlert' = mcAlert + 1
  /\ selection' = RestoredSelection(mcCall[c].previous, selection)
  /\ isUpdatingModel' = FALSE
  /\ mcCall' = [mcCall EXCEPT ![c].pc = "failed"]
  /\ UNCHANGED << chat, chatSet >>

\* what no step of handleModelChange changes
PickFixed == << screen, providers, Settings, store, messages, isSending, viewIsSending,
               viewMessages, viewChat, nextId, text, attachments, turn, Elsewhere, notPick,
               viewSelection, viewIsUpdatingModel >>

\* lines 41-47: the picker calls onChange; up to the await of updateChatModel
handleModelChange(next) ==
  /\ mcLeft > 0
  /\ mcLeft' = mcLeft - 1
  /\ IF ModelChangeRefused(viewIsUpdatingModel)
       THEN UNCHANGED << mcStored, selection, isUpdatingModel, mcCall, mcAlert >>
       ELSE LET c == SetMin({ i \in Picks : mcCall[i].pc = "idle" })
            IN  /\ mcCall' = [mcCall EXCEPT ![c] = [pc |-> "update", next |-> << next >>,
                                                    previous |-> viewSelection]]
                /\ selection' = << next >>
                /\ isUpdatingModel' = TRUE
                /\ UNCHANGED << mcStored, mcAlert >>
  /\ UNCHANGED << chat, chatSet, PickFixed >>

\* db/chat.ts 60-66: updateChatModel's UPDATE runs, or rejects
modelChangeUpdate(c) ==
  /\ mcCall[c].pc = "update"
  /\ \E ok \in BOOLEAN :
       IF ok THEN /\ mcStored' = [mcStored EXCEPT !.provider = mcCall[c].next[1].provider,
                                                  !.model = mcCall[c].next[1].model]
                  /\ mcCall' = [mcCall EXCEPT ![c].pc = "select"]
                  /\ UNCHANGED << chat, chatSet, selection, isUpdatingModel, mcAlert >>
       ELSE ModelChangeCatch(c) /\ UNCHANGED mcStored
  /\ UNCHANGED << mcLeft, PickFixed >>

\* db/chat.ts 67: updateChatModel's SELECT; line 48: setChat(updated); line 53
modelChangeSelect(c) ==
  /\ mcCall[c].pc = "select"
  /\ \E ok \in BOOLEAN :
       IF ok THEN /\ chat' = mcStored
                  /\ chatSet' = "set"
                  /\ isUpdatingModel' = FALSE
                  /\ mcCall' = [mcCall EXCEPT ![c].pc = "done"]
                  /\ UNCHANGED << selection, mcAlert >>
       ELSE ModelChangeCatch(c)
  /\ UNCHANGED << mcStored, mcLeft, PickFixed >>

\* the picker beside one turn of text
PickNext ==
  \/ \E next \in PickPairs : handleModelChange(next)
  \/ \E c \in Picks : modelChangeUpdate(c)
  \/ \E c \in Picks : modelChangeSelect(c)
  \/ \E t \in Turns : sendInvoke(t)
  \/ \E t \in Turns : sendAddUser(t)
  \/ \E t \in Turns : sendAddUserUpdate(t)
  \/ \E t \in Turns : sendKey(t)
  \/ \E t \in Turns : sendAddAssistant(t)
  \/ \E t \in Turns : sendAddAssistantUpdate(t)
  \/ \E t \in Turns : sendStreamOpen(t)
  \/ \E t \in Turns : sendStreamChunk(t)
  \/ \E t \in Turns : sendStreamEnd(t)
  \/ \E t \in Turns : sendStreamFallback(t)
  \/ \E t \in Turns : sendPersist(t)
  \/ Render
  \/ selectionEffect

\* a chat still named "New Chat" with no key stored and a message typed: the
\* turns rename it and end at the missing key, beside one pick of the picker
RenameInit ==
  /\ screen \in {"attachments", "search"}
  /\ chat = [provider |-> "openai", model |-> "gpt-5", title |-> "New Chat"]
  /\ providers = RegistryWithImageEdit(FALSE)
  /\ storedKey = KeysAll("")
  /\ customSearchKey = <<>>
  /\ customSearchCx = <<>>
  /\ settingsLeft = 0
  /\ store = <<>>
  /\ messages = <<>>
  /\ isSending = FALSE
  /\ viewIsSending = FALSE
  /\ viewMessages = <<>>
  /\ viewChat = chat
  /\ nextId = 1
  /\ text = [text |-> "hi", trimmed |-> "hi", sanitized |-> "hi", queries |-> <<>>]
  /\ attachments = <<>>
  /\ turn = [t \in Turns |-> IdleTurn]
  /\ PickerAtRest(1)

RenameNext ==
  \/ \E next \in PickPairs : handleModelChange(next)
  \/ \E c \in Picks : modelChangeUpdate(c)
  \/ \E c \in Picks : modelChangeSelect(c)
  \/ \E t \in Turns : sendInvoke(t)
  \/ \E t \in Turns : sendAddUser(t)
  \/ \E t \in Turns : sendAddUserUpdate(t)
  \/ \E t \in Turns : sendRename(t)
  \/ \E t \in Turns : sendRenameSelect(t)
  \/ \E t \in Turns : sendKey(t)
  \/ Render
  \/ selectionEffect

(* ---------------------- the encrypted key-value storage ---------------- *)

\* the app has just started: _storage is null; the keychain holds the key of
\* an earlier run (key 9) or, on a first run, none
KvInit ==
  /\ secureItem \in {0, 9}
  /\ storage = <<>>
  /\ generated = 0
  /\ kvPc = [c \in Callers |-> "idle"]
  /\ kvK = [c \in Callers |-> 0]
  /\ kvGot = [c \in Callers |-> 0]

\* lines 21-23: `if (_storage) return _storage`, else getOrCreateEncKey is
\* called and awaits SecureStore.getItemAsync
getMMKV(c) ==
  /\ kvPc[c] = "idle"
  /\ IF storage # <<>>
       THEN /\ kvGot' = [kvGot EXCEPT ![c] = storage[1]]
            /\ kvPc' = [kvPc EXCEPT ![c] = "done"]
       ELSE /\ kvPc' = [kvPc EXCEPT ![c] = "reading"]
            /\ UNCHANGED kvGot
  /\ UNCHANGED << secureItem, storage, generated, kvK >>
  /\ UNCHANGED << notKv, streamVars, regVars, sendVars, storeVars, textVars >>

\* lines 8-13: getItemAsync resolves (or rejects); without a key one is
\* generated from fresh random bytes and setItemAsync is awaited
getOrCreateEncKeyRead(c) ==
  /\ kvPc[c] = "reading"
  /\ \E ok \in BOOLEAN :
       IF ~ok THEN /\ kvPc' = [kvPc EXCEPT ![c] = "failed"]
                   /\ UNCHANGED << generated, kvK >>
       ELSE IF secureItem # 0
         THEN /\ kvK' = [kvK EXCEPT ![c] = secureItem]
              /\ kvPc' = [kvPc EXCEPT ![c] = "opening"]
              /\ UNCHANGED generated
         ELSE /\ generated' = generated + 1
              /\ kvK' = [kvK EXCEPT ![c] = generated + 1]
              /\ kvPc' = [kvPc EXCEPT ![c] = "storing"]
  /\ UNCHANGED << secureItem, storage, kvGot >>
  /\ UNCHANGED << notKv, streamVars, regVars, sendVars, storeVars, textVars >>

\* lines 13-17: setItemAsync stores k (or rejects), k is returned
getOrCreateEncKeyStore(c) ==
  /\ kvPc[c] = "storing"
  /\ \E ok \in BOOLEAN :
       IF ok THEN /\ secureItem' = kvK[c]
                  /\ kvPc' = [kvPc EXCEPT ![c] = "opening"]
       ELSE /\ kvPc' = [kvPc EXCEPT ![c] = "failed"]
            /\ UNCHANGED secureItem
  /\ UNCHANGED << storage, generated, kvK, kvGot >>
  /\ UNCHANGED << notKv, streamVars, regVars, sendVars, storeVars, textVars >>

\* lines 24-25: `_storage = new MMKV({ id: 'secure', encryptionKey })`
getMMKVOpen(c) ==
  /\ kvPc[c] = "opening"
  /\ storage' = << kvK[c] >>
  /\ kvGot' = [kvGot EXCEPT ![c] = kvK[c]]
  /\ kvPc' = [kvPc EXCEPT ![c] = "done"]
  /\ UNCHANGED << secureItem, generated, kvK >>
  /\ UNCHANGED << notKv, streamVars, regVars, sendVars, storeVars, textVars >>

KvNext ==
  \/ \E c \in Callers : getMMKV(c)
  \/ \E c \in Callers : getOrCreateEncKeyRead(c)
  \/ \E c \in Callers : getOrCreateEncKeyStore(c)
  \/ \E c \in Callers : getMMKVOpen(c)

(* ------------------------ the image cache directory -------------------- *)

\* the app has just started: the three module variables are null; the
\* environment may offer no base directory, or refuse to create one
DirInit ==
  /\ baseDir \in BOOLEAN
  /\ createThrows \in BOOLEAN
  /\ dirExists \in BOOLEAN
  /\ dirCreates = 0
  /\ resolvedBaseDirectory = FALSE
  /\ resolvedImageDirectory = FALSE
  /\ ensureDirPromise = <<>>
  /\ dcPc = [c \in Callers |-> "idle"]
  /\ dcPromise = [c \in Callers |-> ""]
  /\ dcAvailable = [c \in Callers |-> FALSE]

\* the environment changes: a base directory appears or goes, create starts
\* or stops throwing
directoryEnvironmentChanges ==
  /\ \E b, t \in BOOLEAN :
       /\ << b, t >> # << baseDir, createThrows >>
       /\ baseDir' = b /\ createThrows' = t
  /\ \E c \in Callers : dcPc[c] = "idle"
  /\ UNCHANGED << dirExists, dirCreates, resolvedBaseDirectory, resolvedImageDirectory,
                  ensureDirPromise, dcPc, dcPromise, dcAvailable >>
  /\ UNCHANGED << notDir, streamVars, regVars, sendVars, storeVars, textVars >>

\* lines 105-116: the cached base, else the first of Paths.document and
\* Paths.cache that resolves
resolveBaseDirectory == resolvedBaseDirectory \/ baseDir

\* lines 135-139: create with idempotent: true; an error counts only when the
\* directory does not exist afterwards
DirectoryCreateFails == createThrows /\ ~dirExists

\* what ensureDirPromise becomes when the async function of lines 130-142
\* ends with an error
PromiseAfterFailure == << "rejected" >>

\* line 148 with ensureImageDirectory (127-145): the directory already
\* resolved, the pending or settled promise, or a resolution started; none of
\* it awaits, so the promise is settled when it is returned
saveImageToCache(c) ==
  /\ dcPc[c] = "idle"
  /\ dcPc' = [dcPc EXCEPT ![c] = "awaiting"]
  /\ dcAvailable' = [dcAvailable EXCEPT ![c] = resolveBaseDirectory /\ ~DirectoryCreateFails]
  /\ IF resolvedImageDirectory
       THEN /\ dcPromise' = [dcPromise EXCEPT ![c] = "resolved"]
            /\ UNCHANGED << dirExists, dirCreates, resolvedBaseDirectory,
                            resolvedImageDirectory, ensureDirPromise >>
       ELSE IF ensureDirPromise # <<>>
         THEN /\ dcPromise' = [dcPromise EXCEPT ![c] = ensureDirPromise[1]]
              /\ UNCHANGED << dirExists, dirCreates, resolvedBaseDirectory,
                              resolvedImageDirectory, ensureDirPromise >>
         ELSE /\ resolvedBaseDirectory' = resolveBaseDirectory
              /\ IF ~resolveBaseDirectory \/ DirectoryCreateFails
                   THEN /\ ensureDirPromise' = PromiseAfterFailure
                        /\ dcPromise' = [dcPromise EXCEPT ![c] = "rejected"]
                        /\ UNCHANGED << dirExists, dirCreates, resolvedImageDirectory >>
                   ELSE /\ dirExists' = TRUE
                        /\ dirCreates' = dirCreates + (IF dirExists THEN 0 ELSE 1)
                        /\ resolvedImageDirectory' = TRUE
                        /\ ensureDirPromise' = << "resolved" >>
                        /\ dcPromise' = [dcPromise EXCEPT ![c] = "resolved"]
  /\ UNCHANGED << baseDir, createThrows >>
  /\ UNCHANGED << notDir, streamVars, regVars, sendVars, storeVars, textVars >>

\* lines 148-160: the await ends, with the directory or its error; with a
\* directory the file is created (an error counts when the file does not
\* exist then) and written, and its uri returned
saveImageToCacheSettles(c) ==
  /\ dcPc[c] = "awaiting"
  /\ \E file \in {"written", "createThrows", "writeThrows"} :
       dcPc' = [dcPc EXCEPT ![c] =
                  IF dcPromise[c] # "resolved" THEN "failed"
                  ELSE IF file = "createThrows" THEN "createFailed"
                  ELSE IF file = "writeThrows" THEN "writeFailed"
                  ELSE "done"]
  /\ UNCHANGED << baseDir, createThrows, dirExists, dirCreates, resolvedBaseDirectory,
                  resolvedImageDirectory, ensureDirPromise, dcPromise, dcAvailable >>
  /\ UNCHANGED << notDir, streamVars, regVars, sendVars, storeVars, textVars >>

DirNext ==
  \/ directoryEnvironmentChanges
  \/ \E c \in Callers : saveImageToCache(c)
  \/ \E c \in Callers : saveImageToCacheSettles(c)

(* ------------------------ the conversation store ----------------------- *)

ChatIds == {"c1", "c2"}
Slots == 1..MaxSlots
IdleOp == [op |-> "none", pc |-> "idle", chatId |-> "", now |-> 0, id |-> 0, result |-> <<>>]

\* db/index.ts 3-26: the tables are created empty
StoreInit ==
  /\ foreignKeys \in BOOLEAN
  /\ clock = 1
  /\ dbChats = [c \in ChatIds |-> <<>>]
  /\ dbMessages = {}
  /\ usedIds = {}
  /\ creating = [c \in ChatIds |-> <<>>]
  /\ inserted = 0
  /\ ops = [o \in Slots |-> IdleOp]
  /\ opsLeft = MaxStoreOps

RowsOf(rows, chatId) == { m \in rows : m.chatId = chatId }

\* the rowid SQLite gives a new row of a table without AUTOINCREMENT
NextRowid ==
  IF dbMessages = {} THEN 1
  ELSE 1 + (CHOOSE n \in { m.rowid : m \in dbMessages } :
              \A m \in dbMessages : m.rowid <= n)

\* the order of idx_messages_chat within one chat: createdAt, then rowid
RowBefore_TiesNewestFirst(a, b) ==
  \/ a.createdAt < b.createdAt
  \/ a.createdAt = b.createdAt /\ a.rowid > b.rowid
RowBefore(a, b) ==
  \/ a.createdAt < b.createdAt
  \/ a.createdAt = b.createdAt /\ a.rowid < b.rowid

RECURSIVE OrderRows(_)
OrderRows(rows) ==
  IF rows = {} THEN <<>>
  ELSE LET m == CHOOSE a \in rows : \A b \in rows \ {a} : RowBefore(a, b)
       IN  << m >> \o OrderRows(rows \ {m})

\* lines 31-34: SELECT * FROM messages WHERE chatId=? ORDER BY createdAt ASC
listMessages(chatId) == OrderRows(RowsOf(dbMessages, chatId))

\* a call takes the first slot that holds no call in flight
Free(o) == ops[o].pc \in {"idle", "done", "failed"}
Calls(o, op, pc, chatId) ==
  /\ Free(o) /\ \A other \in 1..(o - 1) : ~Free(other)
  /\ opsLeft > 0
  /\ ops' = [ops EXCEPT ![o] = [op |-> op, pc |-> pc, chatId |-> chatId, now |-> clock,
                                id |-> MaxStoreOps - opsLeft + 1, result |-> <<>>]]
  /\ opsLeft' = opsLeft - 1
Moves(o, pc, result) ==
  ops' = [ops EXCEPT ![o] = IF pc \in {"done", "failed"}
                              THEN [IdleOp EXCEPT !.pc = pc, !.result = result]
                              ELSE [@ EXCEPT !.pc = pc]]
Touch(chatId, now) ==
  [dbChats EXCEPT ![chatId] = IF @ = <<>> THEN @ ELSE << [@[1] EXCEPT !.updatedAt = now] >>]

\* Date.now() moves on, for as long as a call may still read it
Tick ==
  /\ clock < MaxClock
  /\ opsLeft > 0 \/ usedIds # ChatIds
  /\ clock' = clock + 1
  /\ UNCHANGED << foreignKeys, dbChats, dbMessages, usedIds, creating, inserted, ops, opsLeft >>
  /\ UNCHANGED << streamVars, regVars, sendVars, textVars, moreVars >>

\* line 6: createChat reads Date.now() and draws a fresh id
createChatCall(c) ==
  /\ c \notin usedIds /\ creating[c] = <<>>
  /\ creating' = [creating EXCEPT ![c] = << clock >>]
  /\ UNCHANGED << foreignKeys, clock, dbChats, dbMessages, usedIds, inserted, ops, opsLeft >>
  /\ UNCHANGED << streamVars, regVars, sendVars, textVars, moreVars >>

\* lines 7-11: the INSERT INTO chats runs, with the title its callers pass
\* (app/(tabs)/index.tsx 16, part_000 348) and the now of line 6; the chat is
\* returned
createChatInsert(c) ==
  /\ creating[c] # <<>>
  /\ dbChats' = [dbChats EXCEPT ![c] = << [title |-> "New Chat", model |-> "gpt-4o",
                                           createdAt |-> creating[c][1],
                                           updatedAt |-> creating[c][1]] >>]
  /\ usedIds' = usedIds \cup {c}
  /\ creating' = [creating EXCEPT ![c] = <<>>]
  /\ UNCHANGED << foreignKeys, clock, dbMessages, inserted, ops, opsLeft >>
  /\ UNCHANGED << streamVars, regVars, sendVars, textVars, moreVars >>

\* line 25: id and now are taken before the first statement is awaited
addMessageCall(o, c) ==
  /\ c \in usedIds
  /\ Calls(o, "addMessage", "insert", c)
  /\ UNCHANGED << foreignKeys, clock, dbChats, dbMessages, usedIds, creating, inserted >>
  /\ UNCHANGED << streamVars, regVars, sendVars, textVars, moreVars >>

\* line 26: INSERT INTO messages; rejected when foreign keys are enforced and
\* the chat is gone
addMessageInsert(o) ==
  /\ ops[o].op = "addMessage" /\ ops[o].pc = "insert"
  /\ IF foreignKeys /\ dbChats[ops[o].chatId] = <<>>
       THEN Moves(o, "failed", <<>>) /\ UNCHANGED << dbMessages, inserted >>
       ELSE /\ dbMessages' = dbMessages \cup
                 { [id |-> ops[o].id, chatId |-> ops[o].chatId, createdAt |-> ops[o].now,
                    rowid |-> NextRowid, seq |-> inserted + 1] }
            /\ inserted' = inserted + 1
            /\ Moves(o, "bump", <<>>)
  /\ UNCHANGED << foreignKeys, clock, dbChats, usedIds, creating, opsLeft >>
  /\ UNCHANGED << streamVars, regVars, sendVars, textVars, moreVars >>

\* line 27: UPDATE chats SET updatedAt=now, with the now of line 25
addMessageUpdate(o) ==
  /\ ops[o].op = "addMessage" /\ ops[o].pc = "bump"
  /\ dbChats' = Touch(ops[o].chatId, ops[o].now)
  /\ Moves(o, "done", << ops[o].id >>)
  /\ UNCHANGED << foreignKeys, clock, dbMessages, usedIds, creating, inserted, opsLeft >>
  /\ UNCHANGED << streamVars, regVars, sendVars, textVars, moreVars >>

\* lines 47-48 and 58-59
updateChatTitleCall(o, c) ==
  /\ c \in usedIds
  /\ Calls(o, "updateChatTitle", "update", c)
  /\ UNCHANGED << foreignKeys, clock, dbChats, dbMessages, usedIds, creating, inserted >>
  /\ UNCHANGED << streamVars, regVars, sendVars, textVars, moreVars >>

updateChatModelCall(o, c) ==
  /\ c \in usedIds
  /\ Calls(o, "updateChatModel", "update", c)
  /\ UNCHANGED << foreignKeys, clock, dbChats, dbMessages, usedIds, creating, inserted >>
  /\ UNCHANGED << streamVars, regVars, sendVars, textVars, moreVars >>

\* line 49: UPDATE chats SET title=?, updatedAt=? WHERE id=?
updateChatTitleUpdate(o) ==
  /\ ops[o].op = "updateChatTitle" /\ ops[o].pc = "update"
  /\ dbChats' = [Touch(ops[o].chatId, ops[o].now) EXCEPT ![ops[o].chatId] =
                   IF @ = <<>> THEN @ ELSE << [@[1] EXCEPT !.title = "Renamed"] >>]
  /\ Moves(o, "select", <<>>)
  /\ UNCHANGED << foreignKeys, clock, dbMessages, usedIds, creating, inserted, opsLeft >>
  /\ UNCHANGED << streamVars, regVars, sendVars, textVars, moreVars >>

\* lines 60-66: UPDATE chats SET provider=?, model=?, updatedAt=? WHERE id=?
updateChatModelUpdate(o) ==
  /\ ops[o].op = "updateChatModel" /\ ops[o].pc = "update"
  /\ dbChats' = [Touch(ops[o].chatId, ops[o].now) EXCEPT ![ops[o].chatId] =
                   IF @ = <<>> THEN @ ELSE << [@[1] EXCEPT !.model = "gpt-5"] >>]
  /\ Moves(o, "select", <<>>)
  /\ UNCHANGED << foreignKeys, clock, dbMessages, usedIds, creating, inserted, opsLeft >>
  /\ UNCHANGED << streamVars, regVars, sendVars, textVars, moreVars >>

\* lines 50 and 67: SELECT * FROM chats WHERE id=?, null when there is none
updateChatSelect(o) ==
  /\ ops[o].op \in {"updateChatTitle", "updateChatModel"} /\ ops[o].pc = "select"
  /\ Moves(o, "done", dbChats[ops[o].chatId])
  /\ UNCHANGED << foreignKeys, clock, dbChats, dbMessages, usedIds, creating, inserted, opsLeft >>
  /\ UNCHANGED << streamVars, regVars, sendVars, textVars, moreVars >>

\* line 71
deleteChatCall(o, c) ==
  /\ c \in usedIds
  /\ Calls(o, "deleteChat", "deleteMessages", c)
  /\ UNCHANGED << foreignKeys, clock, dbChats, dbMessages, usedIds, creating, inserted >>
  /\ UNCHANGED << streamVars, regVars, sendVars, textVars, moreVars >>

\* line 72: DELETE FROM messages WHERE chatId=?
deleteChatMessages(o) ==
  /\ ops[o].op = "deleteChat" /\ ops[o].pc = "deleteMessages"
  /\ dbMessages' = dbMessages \ RowsOf(dbMessages, ops[o].chatId)
  /\ Moves(o, "deleteChat", <<>>)
  /\ UNCHANGED << foreignKeys, clock, dbChats, usedIds, creating, inserted, opsLeft >>
  /\ UNCHANGED << streamVars, regVars, sendVars, textVars, moreVars >>

\* line 73: DELETE FROM chats WHERE id=?; ON DELETE CASCADE acts when foreign
\* keys are enforced and a row of chats goes
deleteChatRow(o) ==
  /\ ops[o].op = "deleteChat" /\ ops[o].pc = "deleteChat"
  /\ dbChats' = [dbChats EXCEPT ![ops[o].chatId] = <<>>]
  /\ dbMessages' = IF foreignKeys /\ dbChats[ops[o].chatId] # <<>>
                     THEN dbMessages \ RowsOf(dbMessages, ops[o].chatId)
                     ELSE dbMessages
  /\ Moves(o, "done", <<>>)
  /\ UNCHANGED << foreignKeys, clock, usedIds, creating, inserted, opsLeft >>
  /\ UNCHANGED << streamVars, regVars, sendVars, textVars, moreVars >>

\* lines 41-44: one DELETE FROM messages WHERE id=?
deleteMessage(id) ==
  /\ opsLeft > 0
  /\ \E m \in dbMessages : m.id = id
  /\ opsLeft' = opsLeft - 1
  /\ dbMessages' = { m \in dbMessages : m.id # id }
  /\ UNCHANGED << foreignKeys, clock, dbChats, usedIds, creating, inserted, ops >>
  /\ UNCHANGED << streamVars, regVars, sendVars, textVars, moreVars >>

StoreNext ==
  \/ Tick
  \/ \E c \in ChatIds : createChatCall(c)
  \/ \E c \in ChatIds : createChatInsert(c)
  \/ \E o \in Slots, c \in ChatIds : addMessageCall(o, c)
  \/ \E o \in Slots : addMessageInsert(o)
  \/ \E o \in Slots : addMessageUpdate(o)
  \/ \E o \in Slots, c \in ChatIds : updateChatTitleCall(o, c)
  \/ \E o \in Slots, c \in ChatIds : updateChatModelCall(o, c)
  \/ \E o \in Slots : updateChatTitleUpdate(o)
  \/ \E o \in Slots : updateChatModelUpdate(o)
  \/ \E o \in Slots : updateChatSelect(o)
  \/ \E o \in Slots, c \in ChatIds : deleteChatCall(o, c)
  \/ \E o \in Slots : deleteChatMessages(o)
  \/ \E o \in Slots : deleteChatRow(o)
  \/ \E id \in 1..MaxStoreOps : deleteMessage(id)

(* --------------------------- the text functions ------------------------ *)

\* split(/\r?\n/): cut at every "\n", a "\r" right before it going too
RECURSIVE splitLines(_)
splitLines(s) ==
  LET breaks == { i \in DOMAIN s : s[i] = "\n" } IN
  IF breaks = {} THEN << s >>
  ELSE LET i == SetMin(breaks)
           end == IF i > 1 /\ s[i - 1] = "\r" THEN i - 2 ELSE i - 1
       IN  << SubSeq(s, 1, end) >> \o splitLines(SubSeq(s, i + 1, Len(s)))

\* replace(/\s+/g, ' ')
RECURSIVE collapse(_)
collapse(s) ==
  IF s = <<>> THEN <<>>
  ELSE IF ~IsSpace(s[1]) THEN << s[1] >> \o collapse(Tail(s))
  ELSE IF Inked(s) = {} THEN << " " >>
  ELSE << " " >> \o collapse(SubSeq(s, SetMin(Inked(s)), Len(s)))

\* lines 246-247: the first line that is not blank, normalized
firstLine(trimmed) ==
  LET lines == splitLines(trimmed)
      found == First(lines, { i \in DOMAIN lines : Len(trim(lines[i])) > 0 })
  IN  IF found = <<>> THEN trimmed ELSE found[1]
normalized(content) == trim(collapse(firstLine(trim(content))))

\* lines 242-254; <<>> is null
deriveChatTitleFromMessage_NoTrimEnd(content) ==
  IF trim(content) = <<>> \/ normalized(content) = <<>> THEN <<>>
  ELSE IF Len(normalized(content)) <= MAX_LENGTH THEN << normalized(content) >>
  ELSE << SubSeq(normalized(content), 1, MAX_LENGTH - 1) \o << ELLIPSIS >> >>
deriveChatTitleFromMessage(content) ==
  IF trim(content) = <<>> \/ normalized(content) = <<>> THEN <<>>
  ELSE IF Len(normalized(content)) <= MAX_LENGTH THEN << normalized(content) >>
  ELSE << trimEnd(SubSeq(normalized(content), 1, MAX_LENGTH - 1)) \o << ELLIPSIS >> >>

\* the texts: blank space, letters, a gap, more letters, a tail
Letters(c, n) == [i \in 1..n |-> c]
Leads == { <<>>, << " " >>, << "\n" >>, << "\t", "\r", "\n", " " >> }
Gaps == { <<>>, << " " >>, << " ", "\t", " " >>, << "\n" >>, << "\r", "\n" >>, << "\r" >> }
Tails == { <<>>, << " " >>, << "\n", "z" >>, << " ", "\n" >> }
TitleInputs ==
  { lead \o Letters("x", n1) \o gap \o Letters("y", n2) \o tail :
      lead \in Leads, gap \in Gaps, tail \in Tails,
      n1 \in {0, 1, MAX_LENGTH - 2, MAX_LENGTH - 1, MAX_LENGTH, MaxLine},
      n2 \in {0, 1, 2} }
NEW_CHAT == << "N", "e", "w", " ", "C", "h", "a", "t" >>
NoParse == [sanitized |-> <<>>, queries |-> <<>>]

\* the chat is loaded and rendered: the screen shows the stored title
TitleInit ==
  /\ txInput \in TitleInputs
  /\ txChatTitle \in { <<>>, << " " >>, NEW_CHAT, << "P", "l", "a", "n", "s" >> }
  /\ txScreenTitle = txChatTitle /\ txStoredTitle = txChatTitle
  /\ txPc = "ready" /\ txTitle = <<>> /\ txParsed = NoParse

\* line 91: `!chat.title?.trim() || chat.title === 'New Chat'`
shouldRename(title) == trim(title) = <<>> \/ title = NEW_CHAT

\* deriveChatTitleFromMessage on the text as it is
deriveTitle ==
  /\ txPc = "ready"
  /\ txTitle' = deriveChatTitleFromMessage(txInput)
  /\ txPc' = "derived"
  /\ UNCHANGED << txInput, txChatTitle, txScreenTitle, txStoredTitle, txParsed >>
  /\ UNCHANGED << streamVars, regVars, sendVars, storeVars, moreVars >>

\* send, lines 57-71: nothing happens for a blank text; else up to the await
\* of addMessage
txSend ==
  /\ txPc = "ready"
  /\ txPc' = IF trim(txInput) = <<>> THEN "sent" ELSE "addUser"
  /\ UNCHANGED << txInput, txChatTitle, txScreenTitle, txStoredTitle, txTitle, txParsed >>
  /\ UNCHANGED << streamVars, regVars, sendVars, storeVars, moreVars >>

\* line 71, addMessage's INSERT (db/chat.ts 26): it runs, or rejects and the
\* outer catch ends the turn
txAddUser ==
  /\ txPc = "addUser"
  /\ \E ok \in BOOLEAN : txPc' = IF ok THEN "addUserUpdate" ELSE "sent"
  /\ UNCHANGED << txInput, txChatTitle, txScreenTitle, txStoredTitle, txTitle, txParsed >>
  /\ UNCHANGED << streamVars, regVars, sendVars, storeVars, moreVars >>

\* addMessage's UPDATE (db/chat.ts 27); then lines 91-95: a chat with no
\* title of its own in the render send was called from, and a title derived
\* from the trimmed text, lead to updateChatTitle
txAddUserUpdate ==
  /\ txPc = "addUserUpdate"
  /\ \E ok \in BOOLEAN :
       txPc' = IF ok /\ shouldRename(txChatTitle)
                     /\ deriveChatTitleFromMessage(trim(txInput)) # <<>>
                 THEN "rename" ELSE "sent"
  /\ UNCHANGED << txInput, txChatTitle, txScreenTitle, txStoredTitle, txTitle, txParsed >>
  /\ UNCHANGED << streamVars, regVars, sendVars, storeVars, moreVars >>

\* line 96, updateChatTitle's UPDATE (db/chat.ts 49): the row takes the derived
\* title, or the statement rejects and the catch of lines 98-100 logs it
txRename ==
  /\ txPc = "rename"
  /\ \E ok \in BOOLEAN :
       IF ok THEN /\ txStoredTitle' = deriveChatTitleFromMessage(trim(txInput))[1]
                  /\ txPc' = "renameSelect"
       ELSE txPc' = "sent" /\ UNCHANGED txStoredTitle
  /\ UNCHANGED << txInput, txChatTitle, txScreenTitle, txTitle, txParsed >>
  /\ UNCHANGED << streamVars, regVars, sendVars, storeVars, moreVars >>

\* updateChatTitle's SELECT (db/chat.ts 50) and line 97, setChat(renamed): the
\* screen takes the row as it is read back
txRenameSelect ==
  /\ txPc = "renameSelect"
  /\ \E ok \in BOOLEAN :
       txScreenTitle' = IF ok THEN txStoredTitle ELSE txScreenTitle
  /\ txPc' = "sent"
  /\ UNCHANGED << txInput, txChatTitle, txStoredTitle, txTitle, txParsed >>
  /\ UNCHANGED << streamVars, regVars, sendVars, storeVars, moreVars >>

\* db/chat.ts 49, called for the same chat from elsewhere while the send is
\* in flight: the row takes another title
txRenamedElsewhere ==
  /\ txPc \in {"addUser", "addUserUpdate", "rename", "renameSelect"}
  /\ txStoredTitle # << "H", "i" >>
  /\ txStoredTitle' = << "H", "i" >>
  /\ UNCHANGED << txInput, txChatTitle, txScreenTitle, txPc, txTitle, txParsed >>
  /\ UNCHANGED << streamVars, regVars, sendVars, storeVars, moreVars >>

TitleNext ==
  \/ deriveTitle
  \/ txSend
  \/ txAddUser
  \/ txAddUserUpdate
  \/ txRename
  \/ txRenameSelect
  \/ txRenamedElsewhere

(* parseSearchDirectives (lib/ai/webSearch.ts) *)

\* the flag i, on the letters of the two keywords
Lower(c) ==
  CASE c = "S" -> "s" [] c = "E" -> "e" [] c = "A" -> "a" [] c = "R" -> "r"
    [] c = "C" -> "c" [] c = "H" -> "h" [] c = "W" -> "w" [] c = "B" -> "b"
    [] OTHER -> c
SEARCH == << "s", "e", "a", "r", "c", "h" >>
WEB == << "w", "e", "b" >>
StartsWith(s, i, word) ==
  /\ i + Len(word) - 1 <= Len(s)
  /\ \A k \in DOMAIN word : Lower(s[i + k - 1]) = word[k]

\* (?:search|web) at position i: the length matched, 0 when neither is there
KeywordAt(s, i) ==
  IF StartsWith(s, i, SEARCH) THEN Len(SEARCH)
  ELSE IF StartsWith(s, i, WEB) THEN Len(WEB) ELSE 0

\* SEARCH_TAG_REGEX at position i: where the match ends, 0 when there is none.
\* The query is the one or more characters up to the first "]", which has to
\* be the first of two.
TagEnd(s, i) ==
  IF ~(StartsWith(s, i, << "[", "[" >>) /\ KeywordAt(s, i + 2) > 0) THEN 0
  ELSE LET colon == i + 2 + KeywordAt(s, i + 2)
           closers == { j \in DOMAIN s : j > colon /\ s[j] = "]" }
       IN  IF colon > Len(s) \/ s[colon] # ":" \/ closers = {} THEN 0
           ELSE IF SetMin(closers) > colon + 1 /\ SetMin(closers) < Len(s)
                     /\ s[SetMin(closers) + 1] = "]"
                  THEN SetMin(closers) + 1
                  ELSE 0
TagRaw(s, i) == SubSeq(s, i + 3 + KeywordAt(s, i + 2), TagEnd(s, i) - 2)

\* the matches of the global regex from position i on: leftmost first, the
\* search going on behind each match
RECURSIVE tagsFrom(_, _)
tagsFrom(s, i) ==
  IF i > Len(s) THEN <<>>
  ELSE IF TagEnd(s, i) > 0 THEN << TagRaw(s, i) >> \o tagsFrom(s, TagEnd(s, i) + 1)
  ELSE tagsFrom(s, i + 1)

\* lines 6-11: every match gives way to one space
RECURSIVE replaceTags(_, _)
replaceTags(s, i) ==
  IF i > Len(s) THEN <<>>
  ELSE IF TagEnd(s, i) > 0 THEN << " " >> \o replaceTags(s, TagEnd(s, i) + 1)
  ELSE << s[i] >> \o replaceTags(s, i + 1)

\* lines 7-10: `query = String(raw).trim(); if (query) queries.push(query)`
tagQueries_KeepsBlank(raws) == [i \in DOMAIN raws |-> trim(raws[i])]
tagQueries(raws) ==
  SelectSeq([i \in DOMAIN raws |-> trim(raws[i])], LAMBDA q : q # <<>>)

\* replace(/\s{2,}/g, ' '): a run of two or more gives way to one space
RECURSIVE collapseRuns(_)
collapseRuns(s) ==
  IF s = <<>> THEN <<>>
  ELSE IF ~IsSpace(s[1]) \/ Len(s) = 1 \/ ~IsSpace(s[2])
    THEN << s[1] >> \o collapseRuns(Tail(s))
  ELSE IF Inked(s) = {} THEN << " " >>
  ELSE << " " >> \o collapseRuns(SubSeq(s, SetMin(Inked(s)), Len(s)))

\* INLINE_SEARCH_REGEX = /^(?:search|web)\s*:(.*)$/i on the whole input:
\* << group 1 >>, or <<>> when there is no match.  `.` takes no line break
\* and `$` is the end of the input.
inlineMatch(s) ==
  LET k == KeywordAt(s, 1)
      rest == SubSeq(s, k + 1, Len(s))
      colon == IF Inked(rest) = {} THEN 0 ELSE k + SetMin(Inked(rest))
      group == SubSeq(s, colon + 1, Len(s))
  IN  IF k = 0 \/ colon = 0 \/ s[colon] # ":" THEN <<>>
      ELSE IF \E j \in DOMAIN group : group[j] \in {"\n", "\r"} THEN <<>>
      ELSE << group >>

\* lines 4-29
parseSearchDirectives(input) ==
  LET queries == tagQueries(tagsFrom(input, 1))
      sanitized == trim(collapseRuns(replaceTags(input, 1)))
      inline == inlineMatch(input)
  IN  IF queries = <<>> /\ inline # <<>> /\ trim(inline[1]) # <<>>
        THEN [sanitized |-> <<>>, queries |-> << trim(inline[1]) >>]
        ELSE [sanitized |-> sanitized, queries |-> queries]

\* the spec's two examples, character by character
TAG_EXAMPLE ==
  << "T", "e", "l", "l", " ", "m", "e", " ", "a", "b", "o", "u", "t", " ",
     "[", "[", "s", "e", "a", "r", "c", "h", ":", "r", "u", "s", "t", " ",
     "o", "w", "n", "e", "r", "s", "h", "i", "p", "]", "]", " ", "p", "l",
     "e", "a", "s", "e" >>
TAG_EXAMPLE_SANITIZED ==
  << "T", "e", "l", "l", " ", "m", "e", " ", "a", "b", "o", "u", "t", " ",
     "p", "l", "e", "a", "s", "e" >>
TAG_EXAMPLE_QUERY ==
  << "r", "u", "s", "t", " ", "o", "w", "n", "e", "r", "s", "h", "i", "p" >>
PREFIX_EXAMPLE ==
  << "s", "e", "a", "r", "c", "h", ":", " ", "w", "e", "a", "t", "h", "e",
     "r", " ", "i", "n", " ", "T", "o", "k", "y", "o" >>
PREFIX_EXAMPLE_QUERY ==
  << "w", "e", "a", "t", "h", "e", "r", " ", "i", "n", " ", "T", "o", "k",
     "y", "o" >>

\* the texts: up to MaxPieces of these in a row, and the two examples
Pieces ==
  { << "[", "[", "s", "e", "a", "r", "c", "h", ":" >>, << "[", "[", "W", "e", "b", ":" >>,
    << "q", "]", "]" >>, << " ", "r", " ", "]", "]" >>, << " ", "]", "]" >>,
    << "s", "e", "a", "r", "c", "h", ":" >>, << "W", "E", "B", " ", ":" >>,
    << " " >>, << "x" >>, << "\n" >>, << "]" >> }
PieceSeqs == UNION { [1..n -> Pieces] : n \in 0..MaxPieces }
RECURSIVE Flatten(_)
Flatten(seqs) == IF seqs = <<>> THEN <<>> ELSE Head(seqs) \o Flatten(Tail(seqs))
ParseInputs == { Flatten(p) : p \in PieceSeqs } \cup { TAG_EXAMPLE, PREFIX_EXAMPLE }

ParseInit ==
  /\ txInput \in ParseInputs
  /\ txChatTitle = <<>> /\ txScreenTitle = <<>> /\ txStoredTitle = <<>>
  /\ txPc = "ready" /\ txTitle = <<>> /\ txParsed = NoParse

parseText ==
  /\ txPc = "ready"
  /\ txParsed' = parseSearchDirectives(txInput)
  /\ txPc' = "parsed"
  /\ UNCHANGED << txInput, txChatTitle, txScreenTitle, txStoredTitle, txTitle >>
  /\ UNCHANGED << streamVars, regVars, sendVars, storeVars, moreVars >>

ParseNext == parseText

(* --------------------------- specifications ---------------------------- *)

StreamIdle ==
  /\ srChunks = <<>> /\ srBreaks = FALSE /\ srText = <<>> /\ srOnToken = FALSE
  /\ srOpens = FALSE /\ srPc = "idle" /\ srPos = 0 /\ srAcc = "" /\ srResult = ""
  /\ srPayloads = <<>> /\ srHandlerAcc = "" /\ srContents = <<>> /\ srTextReads = 0

RegIdle ==
  /\ cachedProviders = <<>> /\ appleOn = FALSE /\ flips = MaxFlips /\ probes = 0
  /\ ldPc = [c \in Callers |-> "idle"]
  /\ ldMounted = [c \in Callers |-> FALSE]
  /\ ldList = [c \in Callers |-> <<>>]
  /\ ldResult = [c \in Callers |-> <<>>]
  /\ hookProviders = [c \in Callers |-> <<>>]

SendIdle ==
  /\ screen = "none" /\ chat = [provider |-> "", model |-> "", title |-> ""]
  /\ providers = <<>> /\ storedKey = KeysAll("")
  /\ customSearchKey = <<>> /\ customSearchCx = <<>> /\ settingsLeft = 0
  /\ store = <<>> /\ messages = <<>> /\ isSending = FALSE /\ viewIsSending = FALSE
  /\ viewMessages = <<>>
  /\ viewChat = chat
  /\ nextId = 1 /\ turn = <<>>
  /\ text = [text |-> "", trimmed |-> "", sanitized |-> "", queries |-> <<>>]
  /\ attachments = <<>>

StoreIdle ==
  /\ foreignKeys = FALSE /\ clock = 1 /\ dbChats = [c \in ChatIds |-> <<>>]
  /\ dbMessages = {} /\ usedIds = {} /\ inserted = 0
  /\ creating = [c \in ChatIds |-> <<>>]
  /\ ops = [o \in Slots |-> IdleOp] /\ opsLeft = 0

TextIdle ==
  /\ txInput = <<>> /\ txChatTitle = <<>> /\ txPc = "idle" /\ txTitle = <<>>
  /\ txScreenTitle = <<>> /\ txStoredTitle = <<>>
  /\ txParsed = NoParse

ViewIdle == loadPc = "idle" /\ loadRows = <<>> /\ delPc = "idle" /\ delMsg = <<>>

PickIdle == PickerAtRest(0)

KvIdle ==
  /\ secureItem = 0 /\ storage = <<>> /\ generated = 0
  /\ kvPc = [c \in Callers |-> "idle"]
  /\ kvK = [c \in Callers |-> 0]
  /\ kvGot = [c \in Callers |-> 0]

DirIdle ==
  /\ baseDir = FALSE /\ createThrows = FALSE /\ dirExists = FALSE /\ dirCreates = 0
  /\ resolvedBaseDirectory = FALSE /\ resolvedImageDirectory = FALSE
  /\ ensureDirPromise = <<>>
  /\ dcPc = [c \in Callers |-> "idle"]
  /\ dcPromise = [c \in Callers |-> ""]
  /\ dcAvailable = [c \in Callers |-> FALSE]

MoreIdle == ViewIdle /\ PickIdle /\ KvIdle /\ DirIdle

InitStream == StreamInit /\ RegIdle /\ SendIdle /\ StoreIdle /\ TextIdle /\ MoreIdle
InitReg == RegInit /\ StreamIdle /\ SendIdle /\ StoreIdle /\ TextIdle /\ MoreIdle
InitSend == SendInit /\ StreamIdle /\ RegIdle /\ StoreIdle /\ TextIdle /\ MoreIdle
InitOverlap == OverlapInit /\ StreamIdle /\ RegIdle /\ StoreIdle /\ TextIdle /\ MoreIdle
InitStore == StoreInit /\ StreamIdle /\ RegIdle /\ SendIdle /\ TextIdle /\ MoreIdle
InitTitle == TitleInit /\ StreamIdle /\ RegIdle /\ SendIdle /\ StoreIdle /\ MoreIdle
InitParse == ParseInit /\ StreamIdle /\ RegIdle /\ SendIdle /\ StoreIdle /\ MoreIdle

InitScreen == ScreenInit /\ StreamIdle /\ RegIdle /\ StoreIdle /\ TextIdle /\ PickIdle /\ KvIdle /\ DirIdle
InitPick == PickInit /\ StreamIdle /\ RegIdle /\ StoreIdle /\ TextIdle /\ ViewIdle /\ KvIdle /\ DirIdle
InitSettings == SettingsInit /\ StreamIdle /\ RegIdle /\ StoreIdle /\ TextIdle /\ MoreIdle
InitRename == RenameInit /\ StreamIdle /\ RegIdle /\ StoreIdle /\ TextIdle /\ ViewIdle /\ KvIdle /\ DirIdle
InitKv == KvInit /\ StreamIdle /\ RegIdle /\ SendIdle /\ StoreIdle /\ TextIdle /\ ViewIdle /\ PickIdle /\ DirIdle
InitDir == DirInit /\ StreamIdle /\ RegIdle /\ SendIdle /\ StoreIdle /\ TextIdle /\ ViewIdle /\ PickIdle /\ KvIdle

\* a turn with web search beside the settings screen
SpecSettings ==
  /\ InitSettings
  /\ [][SettingsNext]_vars

\* one invocation of streamReply
SpecRename ==
  /\ InitRename
  /\ [][RenameNext]_vars

SpecStream ==
  /\ InitStream
  /\ [][StreamNext]_vars

\* components loading the registry
SpecReg ==
  /\ InitReg
  /\ [][RegNext]_vars

\* one turn of a chat screen
SpecSend ==
  /\ InitSend
  /\ [][SendNext]_vars

\* two invocations of send on one screen
SpecOverlap ==
  /\ InitOverlap
  /\ [][OverlapNext]_vars

\* a turn on a screen that is still loading, and a delete request
SpecScreen ==
  /\ InitScreen
  /\ [][ScreenNext]_vars

\* picks in the chat screen's model picker
SpecPick ==
  /\ InitPick
  /\ [][PickNext]_vars

\* callers of getMMKV after a start of the app
SpecKv ==
  /\ InitKv
  /\ [][KvNext]_vars

\* calls of saveImageToCache after a start of the app
SpecDir ==
  /\ InitDir
  /\ [][DirNext]_vars

\* calls on the conversation store, overlapping at their awaits
SpecStore ==
  /\ InitStore
  /\ [][StoreNext]_vars

\* deriveChatTitleFromMessage and the rename of send, on one text
SpecTitle ==
  /\ InitTitle
  /\ [][TitleNext]_vars

\* parseSearchDirectives on one text
SpecParse ==
  /\ InitParse
  /\ [][ParseNext]_vars

\* the same, with every awaited call settling
FairSend ==
  /\ SpecSend
  /\ WF_vars(TurnStep(1))

(* ------------------------------ properties ----------------------------- *)

\* the chunks streamReply has received so far, without the empty ones
Received == NonEmpty(SubSeq(srChunks, 1, srPos))

\* the in-order concatenation of the first k of seq
Prefix(seq, k) == ConcatAll(SubSeq(seq, 1, k))

InFlight(t) == t \in DOMAIN turn /\ turn[t].pc \notin {"idle", "done"}
Logged(t, e) == \E i \in DOMAIN turn[t].log : turn[t].log[i] = e
Before(t, a, b) ==
  \A i \in DOMAIN turn[t].log :
    turn[t].log[i] = b => \E j \in 1..(i - 1) : turn[t].log[j] = a

\* the rows of the assistant message of invocation t
AssistantRows(rows, t) ==
  SelectSeq(rows, LAMBDA m : m.id = turn[t].assistant /\ m.role = "assistant")

\* C1, as claimed: the k-th onToken payload is the full text accumulated so
\* far, t1 + ... + tk, and for the stream ["Hel", "lo", " world"] the payloads
\* are exactly ["Hel", "Hello", "Hello world"].
C1_PayloadIsAccumulatedText ==
  /\ \A k \in DOMAIN srPayloads : srPayloads[k] = Prefix(Received, k)
  /\ srChunks = << "Hel", "lo", " world" >> /\ srPc = "returned" /\ srOnToken
       => srPayloads = << "Hel", "Hello", "Hello world" >>

\* C2: when the stream yields at least one non-empty chunk and completes,
\* streamReply returns the in-order concatenation of every chunk it received,
\* and that value is the content send writes to the assistant message.
C2_FinalIsConcatenation ==
  \A t \in DOMAIN turn :
    LET r == turn[t] IN
    ~r.image /\ Logged(t, "providerReturn") /\ NonEmpty(r.chunks) # <<>>
      => /\ r.final = ConcatAll(r.chunks)
         /\ Logged(t, "finalPersist")
              => /\ Len(AssistantRows(store, t)) = 1
                 /\ AssistantRows(store, t)[1].content = ConcatAll(r.chunks)

C2_Witness ==
  /\ turn[1].pc = "done" /\ Logged(1, "finalPersist")
  /\ turn[1].chunks = << "a", "b" >>
  /\ AssistantRows(store, 1) = << Row(turn[1].assistant, "assistant", "ab") >>

\* C3, as claimed: when the selected provider requires an API key and the stored
\* key is empty, the turn issues no network call at all (no streamReply, no
\* generateImageFromPrompt, no other request) and the error it ends with for
\* the credential names the provider.
C3_NoNetworkCallWithoutKey ==
  \A t \in DOMAIN turn :
    turn[t].provider # "" /\ requiresKey(turn[t].provider)
      /\ getApiKey(turn[t].provider) = ""
      => /\ turn[t].net = 0
         /\ turn[t].calls = <<>>
         /\ \/ turn[t].alert \in {<<>>, MissingKeyAlert(turn[t].provider)}
            \/ turn[t].alert[1] = "Error"

\* C4: within one turn the user message is persisted before any provider call
\* starts, and the provider call has returned before the assistant message's
\* final content is persisted; no execution reorders the three.
C4_PersistCallPersistOrder ==
  \A t \in DOMAIN turn :
    /\ Before(t, "userPersisted", "providerCall")
    /\ Before(t, "providerCall", "providerReturn")
    /\ Before(t, "providerCall", "providerThrow")
    /\ Before(t, "providerReturn", "finalPersist")
    /\ Logged(t, "userPersisted")
         => \E i \in DOMAIN store : store[i] = Row(turn[t].user, "user", turn[t].content)

C4_Witness ==
  /\ turn[1].pc = "done"
  /\ turn[1].log = << "userPersisted", "providerCall", "providerReturn", "finalPersist" >>

\* C5: in every turn that issues a provider call, an assistant message with
\* empty content is in the store and in the transcript before the call starts,
\* and the message is still in both after the call, whatever its outcome.
C5_AssistantMessageStays ==
  \A t \in DOMAIN turn :
    Logged(t, "providerCall")
      => /\ Len(AssistantRows(store, t)) = 1
         /\ Len(AssistantRows(messages, t)) = 1
         /\ turn[t].pc \in {"image", "stream"}
              => /\ AssistantRows(store, t)[1].content = ""
                 /\ AssistantRows(messages, t)[1].content = ""
         /\ Logged(t, "providerThrow") => AssistantRows(store, t)[1].content = ""

C5_Witness ==
  /\ turn[1].pc = "done" /\ Logged(1, "providerThrow") /\ turn[1].chunks # <<>>
  /\ AssistantRows(store, 1) = << Row(turn[1].assistant, "assistant", "") >>
  /\ AssistantRows(messages, 1) = << Row(turn[1].assistant, "assistant", "a") >>

\* C6: every invocation of send that sets isSending to true sets it back to
\* false on every outcome, provided each awaited call settles; isSending never
\* stays true forever.
C6_IsSendingEventuallyFalse == isSending ~> ~isSending

C6_Witness ==
  /\ turn[1].pc = "done" /\ turn[1].alert # <<>> /\ turn[1].alert[1] = "Error"
  /\ Logged(1, "providerThrow") /\ ~isSending

\* C7, as claimed: at most one turn per chat is in flight at any time, also when
\* a second invocation happens before the screen has rendered isSending = true:
\* the second invocation writes nothing and calls no provider.
C7_AtMostOneTurnInFlight ==
  Cardinality({ t \in DOMAIN turn : InFlight(t) }) <= 1

\* the pair limited to one reference image
ImageEditPair(t) == turn[t].provider = "openai" /\ turn[t].model = "gpt-image-1"

\* invocation t has made its image call
ImageCalled(t) ==
  /\ turn[t].calls = << "generateImageFromPrompt" >>
  /\ Logged(t, "providerReturn") \/ (Logged(t, "providerThrow") /\ turn[t].net > 0)

\* C8, as claimed: with 3 reference images attached for (openai, gpt-image-1) the
\* provider call transmits exactly 1 reference image, the first; with the same
\* 3 images for any other image-capable pair it transmits up to 3.
C8_ImageEditSendsFirstImage ==
  \A t \in DOMAIN turn :
    ImageCalled(t) /\ Len(turn[t].given) = 3
      => IF ImageEditPair(t)
           THEN turn[t].sent = << turn[t].given[1] >>
           ELSE Len(turn[t].sent) <= 3

\* the registry lists the provider / the (provider, model) pair invocation t
\* took when it was called
ProviderListed(t) == \E i \in DOMAIN providers : providers[i].id = turn[t].provider
PairListedAs(t, kind) ==
  \E i \in DOMAIN providers :
    /\ providers[i].id = turn[t].provider
    /\ \E j \in DOMAIN providers[i].models :
         providers[i].models[j] = [id |-> turn[t].model, kind |-> kind]
PairListed(t) == PairListedAs(t, "text") \/ PairListedAs(t, "image")
ProviderNeedsKey(t) ==
  \E i \in DOMAIN providers :
    providers[i].id = turn[t].provider /\ providers[i].requiresApiKey

\* invocation t has evaluated providerRequiresApiKey (line 104)
KeyChecked(t) ==
  \/ turn[t].pc \in {"key", "addAssistant", "addAssistantUpdate", "image", "stream",
                      "streaming", "fallback", "persist"}
  \/ turn[t].calls # <<>>
  \/ turn[t].alert = MissingKeyAlert(turn[t].provider)

\* C9, as claimed: send calls generateImageFromPrompt if and only if isImageModel
\* is true of the pair, and streamReply otherwise; for a pair absent from the
\* registry getModelInfo returns null, isImageModel and providerRequiresApiKey
\* return false, and send takes the text branch.
C9_AbsentPairNeedsNoKey ==
  screen # "basic" =>
    \A t \in DOMAIN turn :
      /\ turn[t].calls # <<>>
           => (turn[t].calls[1] = "generateImageFromPrompt"
                 <=> isImageModel(turn[t].provider, turn[t].model, providers))
      /\ turn[t].pc # "idle" /\ ~PairListed(t)
           => /\ getModelInfo(turn[t].provider, turn[t].model, providers) = <<>>
              /\ ~isImageModel(turn[t].provider, turn[t].model, providers)
              /\ turn[t].calls \in {<<>>, << "streamReply" >>}
      /\ KeyChecked(t) /\ ~PairListed(t)
           => /\ ~providerRequiresApiKey(turn[t].provider, providers)
              /\ turn[t].pc # "key" /\ turn[t].alert # MissingKeyAlert(turn[t].provider)

\* C9, amended: send calls generateImageFromPrompt exactly when the registry
\* lists the pair with kind image, and streamReply otherwise; for a pair absent
\* from the registry getModelInfo returns null, isImageModel returns false and
\* send takes the text branch. providerRequiresApiKey looks at the provider
\* alone: it is false when the provider is absent, and for a listed provider it
\* is the provider's flag whether or not the model is listed, so such a turn
\* reaches its call only with a stored key.
C9_CallPatternFollowsRegistry ==
  screen # "basic" =>
    \A t \in DOMAIN turn :
      /\ turn[t].calls # <<>>
           => /\ Len(turn[t].calls) = 1
              /\ turn[t].calls[1] = (IF PairListedAs(t, "image")
                                       THEN "generateImageFromPrompt" ELSE "streamReply")
      /\ turn[t].pc # "idle" /\ ~PairListed(t)
           => /\ getModelInfo(turn[t].provider, turn[t].model, providers) = <<>>
              /\ ~isImageModel(turn[t].provider, turn[t].model, providers)
              /\ turn[t].calls \in {<<>>, << "streamReply" >>}
      /\ ~ProviderListed(t)
           => /\ ~providerRequiresApiKey(turn[t].provider, providers)
              /\ turn[t].pc # "key" /\ turn[t].alert # MissingKeyAlert(turn[t].provider)
      /\ ProviderNeedsKey(t) /\ turn[t].calls # <<>>
           => turn[t].key = getApiKey(turn[t].provider) /\ turn[t].key # ""

C9_Witness ==
  /\ screen = "attachments" /\ turn[1].provider = "openai" /\ turn[1].model = "gpt-4o"
  /\ turn[1].pc = "done" /\ turn[1].calls = << "streamReply" >>
  /\ turn[1].key = "sk-1" /\ Logged(1, "finalPersist")

\* C10, as claimed: calls of loadAvailableProviders started before the first
\* one resolves share one capability probe, and every caller receives the same
\* provider list.
C10_OneProbe ==
  /\ probes <= 1
  /\ \A c, d \in Callers :
       ldPc[c] = "done" /\ ldPc[d] = "done" => ldResult[c] = ldResult[d]

\* getCachedProviders: what a component reading the registry now is given
getCachedProviders == getBaseProviders(cachedProviders)

ProviderIds(list) == { list[i].id : i \in DOMAIN list }

\* C11, as claimed: the registry is append-only within a session: every provider
\* id loadAvailableProviders has put in the cache (and returned) is still
\* returned by getCachedProviders at every later time, and once the refreshes
\* have settled every component holds the same snapshot as the cache.
C11_RegistryAppendOnly ==
  /\ \A c \in Callers :
       ldPc[c] = "done" => ProviderIds(ldResult[c]) \subseteq ProviderIds(getCachedProviders)
  /\ (\A c \in Callers : ldPc[c] = "done")
       => \A c \in Callers : ldMounted[c] => hookProviders[c] = getCachedProviders

\* listMessages(chatId) on the screen's store: the rows are kept in insertion
\* order, which is the order `ORDER BY createdAt ASC` gives them under a clock
\* that does not run backwards (C15)
StoredMessages == store

\* C12, as claimed: once no turn is in flight the in-memory transcript equals
\* listMessages(chatId) of the store: the same ids in the same order with the
\* same role and content.
C12_TranscriptMirrorsStore ==
  (\A t \in DOMAIN turn : ~InFlight(t)) => messages = StoredMessages

\* the text the k tokens handed to onToken add up to
Delivered(t) == ConcatAll(NonEmpty(turn[t].chunks))
FailedAfterTokens(t) ==
  /\ turn[t].pc = "done" /\ Logged(t, "providerThrow")
  /\ NonEmpty(turn[t].chunks) # <<>>

\* C13: when the provider call fails after k >= 1 tokens went through onToken,
\* the transcript still holds the assistant message, once, with the text of
\* those k tokens, and the alert shows the provider's structured error message
\* when the error carries one and the error's own message (or the thrown value
\* as a string) otherwise.  (Screens with the catch of app/chat/[id].tsx.)
C13_PartialTextKeptAndErrorShown ==
  \A t \in DOMAIN turn :
    (screen # "basic" /\ FailedAfterTokens(t)) =>
      LET e == turn[t].error[1] IN
      /\ Len(AssistantRows(messages, t)) = 1
      /\ AssistantRows(messages, t)[1].content = Delivered(t)
      /\ Delivered(t) # ""
      /\ turn[t].alert[1] = "Error"
      /\ (e.data # <<>> /\ e.data[1] # "") => turn[t].alert[2] = e.data[1]
      /\ (e.data = <<>> \/ e.data[1] = "") =>
           turn[t].alert[2] = (IF e.message # <<>> THEN e.message[1] ELSE e.string)
C13_Witness ==
  /\ screen = "attachments" /\ FailedAfterTokens(1)
  /\ Len(NonEmpty(turn[1].chunks)) = 2
  /\ turn[1].error[1].data = << "Quota exceeded" >>
  /\ turn[1].alert = << "Error", "Quota exceeded" >>
  /\ AssistantRows(messages, 1)[1].content = Delivered(1)

\* slot o's deleteChat runs its last statement and returns
DeleteChatReturns(o) ==
  /\ ops[o].op = "deleteChat" /\ ops[o].pc = "deleteChat"
  /\ ops'[o].pc = "done"

\* C14, as claimed: when deleteChat(id) returns, the store holds no chat with
\* that id and no message whose chatId is that id.
C14_DeleteChatLeavesNothing ==
  [][\A o \in Slots :
       DeleteChatReturns(o) =>
         /\ dbChats'[ops[o].chatId] = <<>>
         /\ RowsOf(dbMessages', ops[o].chatId) = {}]_vars

\* C15: listMessages(chatId) returns exactly that chat's rows, in
\* non-decreasing createdAt order, and rows with equal createdAt in the order
\* their INSERTs ran.
C15_ListMessagesOrdered ==
  \A c \in ChatIds :
    LET l == listMessages(c) IN
    /\ { l[i] : i \in DOMAIN l } = RowsOf(dbMessages, c)
    /\ Len(l) = Cardinality(RowsOf(dbMessages, c))
    /\ \A i, j \in DOMAIN l :
         i < j => /\ l[i].createdAt <= l[j].createdAt
                  /\ l[i].createdAt = l[j].createdAt => l[i].seq < l[j].seq
\* two rows of one chat with the same createdAt, the one whose call came
\* second inserted first
C15_Witness ==
  \E c \in ChatIds :
    LET l == listMessages(c) IN
    /\ Len(l) = 2
    /\ l[1].createdAt = l[2].createdAt /\ l[1].id > l[2].id
    /\ clock > l[2].createdAt

\* C16, as claimed: a chat's updatedAt never decreases, whatever the
\* interleaving of addMessage, updateChatTitle and updateChatModel, while
\* Date.now() never goes back.
C16_UpdatedAtNeverDecreases ==
  [][\A c \in ChatIds :
       (dbChats[c] # <<>> /\ dbChats'[c] # <<>>) =>
         dbChats'[c][1].updatedAt >= dbChats[c][1].updatedAt]_vars

\* a line in normal form: single spaces only, none at either end
NormalForm(line) ==
  /\ \A i \in DOMAIN line : IsSpace(line[i]) => line[i] = " "
  /\ \A i \in 1..(Len(line) - 1) : ~(line[i] = " " /\ line[i + 1] = " ")
  /\ line # <<>> => (line[1] # " " /\ line[Len(line)] # " ")
Ink(s) == SelectSeq(s, LAMBDA c : ~IsSpace(c))
TitleDerived == txPc = "derived" /\ trim(txInput) # <<>>
TitleCut == SubSeq(normalized(txInput), 1, MAX_LENGTH - 1)

\* the chat's title is as it was when the message was sent, on the screen and
\* in the store
TitleLeftAlone == txScreenTitle = txChatTitle /\ txStoredTitle = txChatTitle

\* C17, as claimed: the title is the first non-empty line, normalized; a
\* normalized line of more than 48 characters gives exactly its first 47
\* characters and one ellipsis, 48 characters in all; a blank text gives no
\* title and leaves the chat's title alone.
C17_LongLineCutTo48 ==
  /\ TitleDerived =>
       /\ Len(normalized(txInput)) <= MAX_LENGTH => txTitle = << normalized(txInput) >>
       /\ Len(normalized(txInput)) > MAX_LENGTH =>
            /\ txTitle = << TitleCut \o << ELLIPSIS >> >>
            /\ Len(txTitle[1]) = MAX_LENGTH
  /\ (txPc = "derived" /\ trim(txInput) = <<>>) => txTitle = <<>>
  /\ (txPc = "sent" /\ trim(txInput) = <<>>) => TitleLeftAlone

\* C17, amended: the cut keeps the first 47 characters less a space at their
\* end, so the title has 48 characters, or 47 when the 47th is a space.
C17_LongLineCutAndTrimmed ==
  /\ TitleDerived =>
       /\ NormalForm(normalized(txInput))
       /\ Ink(normalized(txInput)) = Ink(splitLines(trim(txInput))[1])
       /\ Len(normalized(txInput)) <= MAX_LENGTH => txTitle = << normalized(txInput) >>
       /\ Len(normalized(txInput)) > MAX_LENGTH =>
            /\ TitleCut[MAX_LENGTH - 1] # " " =>
                 txTitle = << TitleCut \o << ELLIPSIS >> >> /\ Len(txTitle[1]) = MAX_LENGTH
            /\ TitleCut[MAX_LENGTH - 1] = " " =>
                 /\ txTitle = << SubSeq(TitleCut, 1, MAX_LENGTH - 2) \o << ELLIPSIS >> >>
                 /\ Len(txTitle[1]) = MAX_LENGTH - 1
  /\ (txPc = "derived" /\ trim(txInput) = <<>>) => txTitle = <<>>
  /\ (txPc = "sent" /\ trim(txInput) = <<>>) => TitleLeftAlone
C17_Witness ==
  /\ TitleDerived
  /\ Len(normalized(txInput)) > MAX_LENGTH
  /\ TitleCut[MAX_LENGTH - 1] = " "
  /\ Len(txTitle[1]) = MAX_LENGTH - 1
  /\ txTitle[1][MAX_LENGTH - 1] = ELLIPSIS

Parsed == txPc = "parsed"
\* the tags of the text, in message order, each with its query untrimmed
TagsOfInput == tagsFrom(txInput, 1)
TextWithoutTags == trim(collapseRuns(replaceTags(txInput, 1)))
NoRunsNoEnds(s) ==
  /\ \A i \in 1..(Len(s) - 1) : ~(IsSpace(s[i]) /\ IsSpace(s[i + 1]))
  /\ s # <<>> => (~IsSpace(s[1]) /\ ~IsSpace(s[Len(s)]))

\* C18, as claimed: every [[search:QUERY]] and [[web:QUERY]] tag of the text
\* gives a query, its QUERY trimmed, in message order; every tag becomes one
\* space and the text left is returned with whitespace runs collapsed and the
\* ends trimmed.
C18_EveryTagGivesItsQuery ==
  (Parsed /\ TagsOfInput # <<>>) =>
    /\ txParsed.queries = [i \in DOMAIN TagsOfInput |-> trim(TagsOfInput[i])]
    /\ txParsed.sanitized = TextWithoutTags

\* C18, amended: the tags whose QUERY is not blank give the queries; when
\* there is such a tag the text returned is the text without its tags, blank
\* ones included; the spec's example comes out as stated.
C18_TagsWithAQueryGiveIt ==
  Parsed =>
    LET wanted == SelectSeq([i \in DOMAIN TagsOfInput |-> trim(TagsOfInput[i])],
                            LAMBDA q : q # <<>>)
    IN  /\ wanted # <<>> =>
             /\ txParsed.queries = wanted
             /\ txParsed.sanitized = TextWithoutTags
             /\ NoRunsNoEnds(txParsed.sanitized)
        /\ \A i \in DOMAIN txParsed.queries :
             txParsed.queries[i] # <<>> /\ trim(txParsed.queries[i]) = txParsed.queries[i]
        /\ txInput = TAG_EXAMPLE =>
             /\ txParsed.sanitized = TAG_EXAMPLE_SANITIZED
             /\ txParsed.queries = << TAG_EXAMPLE_QUERY >>
C18_Witness ==
  /\ Parsed /\ Len(TagsOfInput) = 2
  /\ TagsOfInput[2] = << " ", "r", " " >>
  /\ txParsed.queries = << << "q" >>, << "r" >> >>
  /\ txParsed.sanitized = <<>>

\* the text starts with search or web, then a colon, whitespace at most
\* between them; Remainder is what follows the colon
ColonOfPrefix ==
  LET k == KeywordAt(txInput, 1)
      colons == { j \in DOMAIN txInput : j > k /\ ~IsSpace(txInput[j]) }
  IN  IF k > 0 /\ colons # {} /\ txInput[SetMin(colons)] = ":" THEN SetMin(colons) ELSE 0
Remainder == SubSeq(txInput, ColonOfPrefix + 1, Len(txInput))
OneLine(s) == \A j \in DOMAIN s : s[j] \notin {"\n", "\r"}

\* C19, as claimed: the prefix form applies only to a text without bracketed
\* directive: there, a text that starts with search: or web: (here with a
\* remainder of one line that is not blank) gives the one query, its trimmed
\* remainder, and an empty text; a text with a bracketed directive is never
\* taken for a prefix-form query: its queries and text are those of its tags.
C19_PrefixFormOnlyWithoutTags ==
  Parsed =>
    /\ (TagsOfInput = <<>> /\ ColonOfPrefix > 0 /\ trim(Remainder) # <<>> /\ OneLine(Remainder)) =>
         /\ txParsed.queries = << trim(Remainder) >>
         /\ txParsed.sanitized = <<>>
    /\ TagsOfInput # <<>> =>
         /\ \A i \in DOMAIN txParsed.queries :
              \E j \in DOMAIN TagsOfInput : txParsed.queries[i] = trim(TagsOfInput[j])
         /\ txParsed.sanitized = TextWithoutTags
    /\ txInput = PREFIX_EXAMPLE =>
         txParsed = [sanitized |-> <<>>, queries |-> << PREFIX_EXAMPLE_QUERY >>]

\* invocation t has called streamReply: its message list is on record
StreamCalled(t) == turn[t].history # <<>>
BlocksIn(t, list) ==
  \A i \in DOMAIN turn[t].blocks :
    \E j \in DOMAIN list :
      list[j] = [role |-> "system", content |-> turn[t].blocks[i].content]
BlocksStored(t) ==
  \E i \in DOMAIN turn[t].blocks, j \in DOMAIN store :
    \/ store[j].id = turn[t].blocks[i].id
    \/ store[j].content = turn[t].blocks[i].content
    \/ store[j].role = "system"

\* C20, as claimed: the search blocks of a turn are in the message list of the
\* turn's provider call, as system messages, and none is ever in the store.
C20_BlocksGoToTheProviderOnly ==
  \A t \in DOMAIN turn :
    /\ (turn[t].blocks # <<>> /\ (StreamCalled(t) \/ ImageCalled(t))) =>
         BlocksIn(t, turn[t].history)
    /\ ~BlocksStored(t)

\* C20, amended: the blocks are in the message list of the turn's streamReply
\* call, as system messages, after the transcript send saw and before the user
\* message; a turn of an image model hands generateImageFromPrompt the prompt
\* and no message list; none is ever in the store.
C20_BlocksGoToStreamReplyOnly ==
  \A t \in DOMAIN turn :
    /\ (turn[t].blocks # <<>> /\ StreamCalled(t)) =>
         /\ BlocksIn(t, turn[t].history)
         /\ turn[t].history =
              Pairs(turn[t].base) \o Pairs(turn[t].blocks)
                \o << [role |-> "user", content |-> turn[t].content] >>
    /\ ImageCalled(t) => turn[t].history = <<>>
    /\ ~BlocksStored(t)
C20_Witness ==
  /\ screen = "search" /\ turn[1].pc = "done"
  /\ Len(turn[1].blocks) = 1 /\ StreamCalled(1)
  /\ turn[1].history[1].role = "system"
  /\ Logged(1, "providerReturn")
  /\ Len(store) = 2 /\ Len(messages) = 3

SideFailures == {"searchFailed", "searchSkipped", "renameFailed", "cacheFailed"}
SideFailed(t) == \E e \in SideFailures : Logged(t, e)
\* invocation t takes a step in which a side step fails
SideStepFails(t) ==
  /\ Len(turn'[t].log) = Len(turn[t].log) + 1
  /\ turn'[t].log[Len(turn'[t].log)] \in SideFailures
ProviderCallIssued(t) == turn[t].calls # <<>> /\ (StreamCalled(t) \/ turn[t].net > 0)

\* what the block of turn t's i-th query says when the query has failed
FailedQueryText(t, i) == "Web search for \"" \o turn[t].queries[i] \o "\" failed: timeout"

\* C21: a failed side step of send (a search query that throws, search
\* credentials missing, a rename that fails, an attachment that cannot be
\* cached) does not end the turn: the step hands over to the next one with no
\* error caught; a turn that then ends with no alert has issued its provider
\* call; every query has left its block in the transcript, a failed one a block
\* that names the query and the reason.
C21_SideFailuresDoNotAbort ==
  /\ [][\A t \in Turns :
          (t \in DOMAIN turn /\ SideStepFails(t)) =>
            /\ turn'[t].pc \in {"cache", "rename", "searchCreds", "searching", "key",
                                "addAssistant"}
            /\ turn'[t].error = <<>> /\ turn'[t].alert = <<>>]_vars
  /\ [](\A t \in DOMAIN turn :
          /\ (SideFailed(t) /\ turn[t].pc = "done" /\ turn[t].alert = <<>>) =>
               ProviderCallIssued(t)
          /\ Logged(t, "searchFailed") =>
               /\ Len(turn[t].blocks) = Len(turn[t].queries)
               /\ \A i \in DOMAIN turn[t].blocks :
                    /\ turn[t].blocks[i].content \in
                         { "Results for " \o turn[t].queries[i], FailedQueryText(t, i) }
                    /\ \E j \in DOMAIN messages : messages[j] = turn[t].blocks[i]
               /\ \E i \in DOMAIN turn[t].blocks :
                    turn[t].blocks[i].content = FailedQueryText(t, i))
C21_Witness ==
  /\ turn[1].pc = "done" /\ turn[1].alert = <<>>
  /\ Logged(1, "searchFailed") /\ Logged(1, "renameFailed")
  /\ Logged(1, "providerReturn") /\ StreamCalled(1)
  /\ BlocksIn(1, turn[1].history)

\* the loop over the text stream has ended without an error
StreamCompleted == srOnToken /\ srPc \in {"fallback", "returned"}

\* C22: when the text stream completes having yielded no non-empty chunk,
\* streamReply requests the full non-streamed text exactly once (never before
\* the stream has ended, never twice) and returns that text, or the empty
\* accumulated text when the request fails; no onToken callback is issued.
C22_EmptyStreamFallsBackOnce ==
  /\ srTextReads <= 1
  /\ (StreamCompleted /\ Received = <<>>) =>
       /\ srPayloads = <<>> /\ srContents = <<>>
       /\ srPc = "fallback" => srTextReads = 0
       /\ srPc = "returned" =>
            /\ srTextReads = 1
            /\ srResult = (IF srText = <<>> THEN "" ELSE srText[1])
  /\ (srOnToken /\ srPc = "returned" /\ Received # <<>>) => srTextReads = 0

C22_Witness ==
  /\ srOnToken /\ srChunks = << "", "" >> /\ srPc = "returned"
  /\ srTextReads = 1 /\ srResult = "Hello world" /\ srPayloads = <<>>

\* C23, as claimed: the onToken callbacks are one per chunk received, in the
\* order received and with none dropped, and none occurs once streamReply has
\* returned or thrown.
C23_OneCallbackPerChunk ==
  srOnToken => srPayloads = SubSeq(srChunks, 1, srPos)

\* C23, amended: the onToken callbacks are one per NON-EMPTY chunk received, in
\* the order received and with none of them dropped (an empty chunk is skipped
\* without a callback); a call without a handler issues none; no callback is
\* added once streamReply has returned or thrown.
C23_OneCallbackPerNonEmptyChunk ==
  /\ [](srPayloads = (IF srOnToken THEN Received ELSE <<>>))
  /\ [][/\ srPc \in {"returned", "threw"} => srPayloads' = srPayloads
        /\ srPayloads' # srPayloads =>
             /\ srPc = "streaming" /\ srPc' = "streaming"
             /\ srPayloads' = Append(srPayloads, srChunks[srPos'])]_vars

C23_Witness ==
  /\ srOnToken /\ srChunks = << "Hel", "", "lo" >> /\ srPc = "threw"
  /\ srPos = 3 /\ srPayloads = << "Hel", "lo" >>

\* the turn went through the image branch and the provider answered
ImageAnswered(t) ==
  /\ turn[t].image /\ turn[t].pc = "done"
  /\ ImageCalled(t) /\ Logged(t, "providerReturn")

\* C24: in the image branch, when the provider returns no image the assistant
\* message's content is the accompanying text, trimmed, when that is not empty
\* and "No image was generated." otherwise; with or without an image, when the
\* turn ends the assistant message's content in the transcript and in the
\* store are equal and not empty.
C24_ImageContentRenderableAndStored ==
  \A t \in DOMAIN turn :
    ImageAnswered(t) =>
      LET shown == AssistantRows(messages, t)
          stored == AssistantRows(store, t)
      IN  /\ Len(shown) = 1 /\ Len(stored) = 1
          /\ turn[t].fallback =>
               shown[1].content =
                 (IF trim(turn[t].imageText) = <<>> THEN "No image was generated."
                  ELSE ConcatAll(trim(turn[t].imageText)))
          /\ shown[1].content # ""
          /\ stored[1].content = shown[1].content

\* the same with the final write failing left aside: the content shown
C24_ImageContentShown ==
  \A t \in DOMAIN turn :
    ImageAnswered(t) =>
      LET shown == AssistantRows(messages, t)
      IN  /\ Len(shown) = 1 /\ shown[1].content # ""
          /\ turn[t].fallback =>
               shown[1].content \in {"No image was generated.", "Ok", "Ok."}
          /\ Logged(t, "finalPersist") => AssistantRows(store, t) = shown

Ids(rows) == { rows[i].id : i \in DOMAIN rows }

\* C25: the transcript never holds two entries with the same message id,
\* however the initial load (listMessages, then setMessages) interleaves with
\* a send started after the chat was set and before the load's setMessages.
C25_TranscriptIdsDistinct ==
  \A i, j \in DOMAIN messages : i # j => messages[i].id # messages[j].id

\* the user has deleted the assistant message of turn t and the delete is over
AssistantDeleted(t) ==
  /\ delPc = "done" /\ delMsg # <<>>
  /\ turn[t].assistant # 0 /\ delMsg[1].id = turn[t].assistant

\* C27: an assistant message the user deleted while its turn was streaming is
\* not re-created: no onToken callback and no final updateMessageContent of
\* the turn adds an entry with its id to the transcript or a row with its id to
\* the store, and the store never holds such a row again.
C27_DeletedAssistantNotRecreated ==
  /\ [](\A t \in DOMAIN turn :
          AssistantDeleted(t) => turn[t].assistant \notin Ids(store))
  /\ [][\A t \in DOMAIN turn :
          (turn[t].pc \in {"stream", "streaming", "fallback", "persist"}
             /\ turn'[t] # turn[t]) =>
            LET a == turn[t].assistant IN
            /\ a \notin Ids(messages) => a \notin Ids(messages')
            /\ a \notin Ids(store) => a \notin Ids(store')]_vars

C27_Witness ==
  /\ AssistantDeleted(1) /\ loadPc = "loaded"
  /\ turn[1].pc = "done" /\ Logged(1, "finalPersist") /\ turn[1].final = "ab"
  /\ turn[1].assistant \notin Ids(messages)
  /\ turn[1].assistant \notin Ids(store)
  /\ delMsg[1].content = "a"

\* no call on chat c is in flight
Quiet(c) == \A o \in Slots : Free(o) \/ ops[o].chatId # c

\* C26: no message row references a chat that does not exist: once a
\* deleteChat(id) and the calls of a turn on the same chat that overlapped it
\* have all finished, the store holds no message whose chatId is id.
C26_NoMessageOfADeletedChat ==
  \A c \in usedIds :
    (Quiet(c) /\ dbChats[c] = <<>>) => RowsOf(dbMessages, c) = {}

\* a call of handleModelChange is awaiting updateChatModel; the picker calls
\* handleModelChange
ModelChangeInProgress == \E c \in Picks : mcCall[c].pc \in {"update", "select"}
ModelChangeInvoked == mcLeft' = mcLeft - 1

\* C28, as claimed: when a handleModelChange finishes the selection equals the
\* chat's pair: after a successful updateChatModel both equal the requested
\* pair and the stored one; after a failed one the selection is back at the
\* pair it had before the call and the chat is unchanged; isUpdatingModel is
\* false in both cases; a handleModelChange invoked while another is in
\* progress changes nothing.
C28_ModelChangeSettles ==
  /\ [][\A c \in Picks :
         /\ (mcCall[c].pc = "select" /\ mcCall'[c].pc = "done") =>
              /\ selection' = mcCall[c].next
              /\ Pair(chat') = mcCall[c].next[1] /\ Pair(mcStored') = mcCall[c].next[1]
              /\ ~isUpdatingModel'
         /\ (mcCall[c].pc \in {"update", "select"} /\ mcCall'[c].pc = "failed") =>
              /\ selection' = selectionOf(chat') /\ chat' = chat
              /\ mcAlert' = mcAlert + 1
              /\ ~isUpdatingModel']_vars
  /\ [][(ModelChangeInProgress /\ ModelChangeInvoked) =>
          UNCHANGED << chat, mcStored, selection, isUpdatingModel, mcCall, mcAlert >>]_vars

KvSettled == \A c \in Callers : kvPc[c] \in {"done", "failed"}

\* C29: under concurrent first calls of getMMKV at most one encryption key is
\* generated and stored under mmkv.enc.v1, and every caller receives a storage
\* instance opened with the key that remains stored.
C29_OneKeyForEveryCaller ==
  /\ generated <= 1
  /\ KvSettled => \A c \in Callers : kvPc[c] = "done" => kvGot[c] = secureItem

\* C30: a failed resolution of the image cache directory is not sticky: a
\* saveImageToCache call made when a directory is available gets it, whatever
\* failed before, and does not end with the directory's error; and the
\* ai-images directory is created at most once.
C30_DirectoryFailureNotSticky ==
  /\ \A c \in Callers :
       (dcPc[c] # "idle" /\ dcAvailable[c]) =>
         /\ dcPromise[c] = "resolved"
         /\ dcPc[c] # "failed"
  /\ dirCreates <= 1

====
